---- MODULE Spec2Model ----
(***************************************************************************)
(* Chat orchestration engine of exile-ai (app/services/llm): one run of    *)
(* ChatService.chat (single-shot) or ChatService.chat_stream (streaming)   *)
(* against the provider directory, the tool registries, the record store,  *)
(* the quota counter store and the observability sink.                     *)
(***************************************************************************)
EXTENDS Integers, Sequences, FiniteSets, TLC

(***************************************************************************)
(* Bounds of the model.                                                    *)
(***************************************************************************)
MaxSteps == 2        \* largest LLM_MAX_TOOL_STEPS / max_tool_steps of Spec and SpecTools
MaxToolCalls == 1    \* tool calls per completion result in Spec
MaxToolCallsT == 2   \* tool calls per completion result in SpecTools
MaxChunks == 2       \* chunks one candidate's stream yields
MaxCfgSteps == 9     \* largest LLM_MAX_TOOL_STEPS of SpecSteps
MinuteLimit == 1     \* LLM_RATE_LIMIT_REQUESTS_PER_MINUTE
DayLimit == 1        \* LLM_RATE_LIMIT_REQUESTS_PER_DAY
TokenLimit == 2      \* LLM_TOKEN_QUOTA_PER_DAY
MaxHistory == 16     \* rows of the longest conversation
SummaryTriggerMessages == 6   \* LLM_MEMORY_SUMMARY_TRIGGER_MESSAGES
KeepRecentMessages == 4       \* LLM_MEMORY_KEEP_RECENT_MESSAGES
MaxRuns == 3         \* concurrent runs on one quota bucket
MaxTextLength == 500 \* characters of the longest document
MaxGate == 2         \* counters and ceilings of the gate, in SpecGate
MaxDocs == 2         \* ingestions in a row

(***************************************************************************)
(* Program constants.                                                      *)
(***************************************************************************)
MaxToolStepsCeiling == 8     \* LLMChatReq.max_tool_steps: le=8
CodeNotFound == 10002        \* custom_code of "not registered / not found"
CodeFailed == 10005          \* custom_code of every other CustomException
TriggerFloor == 6            \* maybe_refresh_summary: max(6, trigger)
KeepFloor == 4               \* maybe_refresh_summary: max(4, min(keep, 100))
KeepCeiling == 100
MinChunkSize == 200          \* ingest_document: max(200, min(chunk_size, 4000))
MaxChunkSize == 4000

None == "None"

Max(a, b) == IF a >= b THEN a ELSE b

Min(a, b) == IF a <= b THEN a ELSE b

(***************************************************************************)
(* Text.  A text is a sequence of characters; " " is whitespace.           *)
(***************************************************************************)
RECURSIVE lstrip(_)
lstrip(s) == IF s # <<>> /\ Head(s) = " " THEN lstrip(Tail(s)) ELSE s

RECURSIVE rstrip(_)
rstrip(s) ==
    IF s # <<>> /\ s[Len(s)] = " " THEN rstrip(SubSeq(s, 1, Len(s) - 1)) ELSE s

\* str.strip()
strip(s) == rstrip(lstrip(s))

\* a variant of the concatenation that keeps the last fragment only
join_last_only(parts) == IF parts = <<>> THEN <<>> ELSE parts[Len(parts)]

\* "".join(parts)
RECURSIVE join(_)
join(parts) == IF parts = <<>> THEN <<>> ELSE Head(parts) \o join(Tail(parts))

\* The synthesized reply of a tool loop that ran out of steps.
StepLimitText == <<"L">>

(***************************************************************************)
(* Errors.  An exception is named by the detail it carries.                *)
(***************************************************************************)
\* CustomException raised by resolve_provider
ResolveErrors == {"unsupported_provider", "base_url_missing", "api_key_missing"}
\* CustomException raised by chat_completion / chat_completion_stream
CallErrors == {"request_failed", "stream_request_failed", "empty_response"}
\* CustomException raised by the tool registry and the MCP service
ToolErrors == {"tool_missing_name", "tool_unregistered", "mcp_unregistered",
               "mcp_disabled"}
\* CustomException raised elsewhere in the engine
EngineErrors == {"conversation_not_found", "rate_limited_minute", "rate_limited_day",
                 "quota_exhausted", "no_provider"}
\* exceptions that are not CustomException (httpx, redis, sqlalchemy)
OtherErrors == {"network_error", "redis_error", "db_error"}

isCustomException(e) == e \in ResolveErrors \cup CallErrors \cup ToolErrors \cup EngineErrors

custom_code(e) ==
    IF e \in {"tool_unregistered", "mcp_unregistered", "conversation_not_found"}
    THEN CodeNotFound ELSE CodeFailed

\* the details that carry one of the markers of _is_fallback_candidate_error
MarkedErrors == {"request_failed", "stream_request_failed", "empty_response",
                 "api_key_missing", "base_url_missing", "unsupported_provider"}

is_fallback_candidate_error(e) ==
    IF ~isCustomException(e) THEN TRUE ELSE e \in MarkedErrors

(***************************************************************************)
(* Provider directory.                                                     *)
(***************************************************************************)
Providers == {"deepseek", "openai", "gemini"}
default_llm_provider == "deepseek"
\* per provider: base_url and api_key present, api_key absent, base_url absent
ProviderStatus == {"ok", "no_key", "no_url"}

\* UnifiedLLMClient.resolve_provider: [ok, provider, error]
resolve_provider(cfg, provider, require_api_key) ==
    LET resolved_provider == IF provider = None THEN default_llm_provider ELSE provider
    IN  IF resolved_provider \notin Providers
        THEN [ok |-> FALSE, provider |-> resolved_provider, error |-> "unsupported_provider"]
        ELSE IF cfg.status[resolved_provider] = "no_url"
        THEN [ok |-> FALSE, provider |-> resolved_provider, error |-> "base_url_missing"]
        ELSE IF require_api_key /\ cfg.status[resolved_provider] = "no_key"
        THEN [ok |-> FALSE, provider |-> resolved_provider, error |-> "api_key_missing"]
        ELSE [ok |-> TRUE, provider |-> resolved_provider, error |-> None]

\* x.strip().lower() of a provider name as it is written in the settings
normalised(name) ==
    CASE name = " OpenAI " -> "openai"
      [] name = " " -> ""
      [] OTHER -> name

\* a variant of the loop that appends a name whether or not it is in the list
RECURSIVE dedup_keeping(_, _)
dedup_keeping(names, acc) ==
    IF names = <<>> THEN acc
    ELSE LET name == Head(names)
         IN  IF name = ""
             THEN dedup_keeping(Tail(names), acc)
             ELSE dedup_keeping(Tail(names), Append(acc, name))

\* the de-duplicating loop of _provider_candidates
RECURSIVE dedup(_, _)
dedup(names, acc) ==
    IF names = <<>> THEN acc
    ELSE LET name == Head(names)
         IN  IF name = "" \/ (\E i \in 1..Len(acc) : acc[i] = name)
             THEN dedup(Tail(names), acc)
             ELSE dedup(Tail(names), Append(acc, name))

\* ChatService._provider_candidates
provider_candidates(cfg, primary_provider) ==
    LET primary == normalised(IF primary_provider = "" THEN default_llm_provider
                              ELSE primary_provider)
        fallback_list == [i \in 1..Len(cfg.fallback_providers) |->
                             normalised(cfg.fallback_providers[i])]
    IN  IF ~cfg.auto_fallback THEN <<primary>>
        ELSE LET candidates == dedup(<<primary>> \o fallback_list, <<>>)
             IN  IF candidates = <<>> THEN <<primary>> ELSE candidates

(***************************************************************************)
(* Usage accounting.  A usage dict is a function from keys to values; a    *)
(* token count is a number from 0, and a value that is not a number (None, *)
(* a dict of details) is written as a number below 0.                      *)
(***************************************************************************)
EmptyUsage == [k \in {} |-> 0]

\* isinstance(value, (int, float))
is_number(value) == value >= 0

\* a variant of the merge in which the value seen last replaces the one before
merge_usage_overwriting(current, new_usage) ==
    [k \in DOMAIN current \cup DOMAIN new_usage |->
        IF k \in DOMAIN new_usage THEN new_usage[k] ELSE current[k]]

\* ChatService._merge_usage
merge_usage(current, new_usage) ==
    [k \in DOMAIN current \cup DOMAIN new_usage |->
        IF k \in DOMAIN current /\ k \in DOMAIN new_usage
        THEN (IF is_number(new_usage[k]) /\ is_number(current[k])
              THEN current[k] + new_usage[k]
              ELSE current[k])
        ELSE IF k \in DOMAIN current THEN current[k]
        ELSE new_usage[k]]

usage_get(usage, key, default) == IF key \in DOMAIN usage THEN usage[key] ELSE default

\* LLMObservabilityService.extract_token_usage: the total
total_tokens_of(usage) ==
    LET \* _to_int: a value that is not a number counts as 0
        to_int(value) == IF is_number(value) THEN value ELSE 0
        prompt_tokens ==
            to_int(usage_get(usage, "prompt_tokens", usage_get(usage, "input_tokens", 0)))
        completion_tokens ==
            to_int(usage_get(usage, "completion_tokens",
                             usage_get(usage, "output_tokens", 0)))
        total_tokens == to_int(usage_get(usage, "total_tokens", 0))
    IN  IF total_tokens <= 0
        THEN (IF prompt_tokens + completion_tokens > 0
              THEN prompt_tokens + completion_tokens ELSE 0)
        ELSE total_tokens

(***************************************************************************)
(* Tool calls and the two tool registries.                                 *)
(***************************************************************************)
NoId == 0
\* ToolRegistry._tools: "calc" returns, the executor of "boom" raises
LocalTools == {"calc", "boom"}
\* tools of registered MCP servers: "echo" on a mock transport, "flaky" on an http
\* transport, "off" on a disabled server
RemoteTools == {"echo", "flaky", "off"}
\* what the remote side does on a call: the server answers, the http call fails,
\* the server lookup in the record store raises
RemoteEnv == {"answer", "http_error", "db_error"}

\* the id a provider gives the pos-th tool call of its step-th result
ProviderCallId(step, pos) == 10 * (step + 1) + pos
\* f"toolcall_{uuid.uuid4().hex}": fresh, never equal to a provider's id
GeneratedCallId(n) == 1000 + n

ToolResult(ok, call_id, tool_name) ==
    [ok |-> ok, tool_call_id |-> call_id, tool_name |-> tool_name,
     content |-> IF ok THEN <<"ok">> ELSE <<"error">>]

NoResult == ToolResult(FALSE, NoId, "")

\* a variant of the registry that lets the executor's exception out
registry_execute_raising(tool_call, fresh) ==
    LET call_id == IF tool_call.id = NoId THEN GeneratedCallId(fresh) ELSE tool_call.id
    IN  IF tool_call.name = ""
        THEN [raised |-> "tool_missing_name", result |-> NoResult]
        ELSE IF tool_call.name \notin LocalTools
        THEN [raised |-> "tool_unregistered", result |-> NoResult]
        ELSE IF tool_call.name = "boom"
        THEN [raised |-> "network_error", result |-> NoResult]
        ELSE [raised |-> None, result |-> ToolResult(TRUE, call_id, tool_call.name)]

\* a variant of the registry that answers every call under a generated id
registry_execute_fresh_id(tool_call, fresh) ==
    IF tool_call.name = ""
    THEN [raised |-> "tool_missing_name", result |-> NoResult]
    ELSE IF tool_call.name \notin LocalTools
    THEN [raised |-> "tool_unregistered", result |-> NoResult]
    ELSE [raised |-> None,
          result |-> ToolResult(tool_call.name # "boom", GeneratedCallId(fresh),
                                tool_call.name)]

\* ToolRegistry.execute_tool_call: [raised, result]
registry_execute_tool_call(tool_call, fresh) ==
    LET call_id == IF tool_call.id = NoId THEN GeneratedCallId(fresh) ELSE tool_call.id
    IN  IF tool_call.name = ""
        THEN [raised |-> "tool_missing_name", result |-> NoResult]
        ELSE IF tool_call.name \notin LocalTools
        THEN [raised |-> "tool_unregistered", result |-> NoResult]
        ELSE [raised |-> None,
              result |-> ToolResult(tool_call.name # "boom", call_id, tool_call.name)]

\* MCPService.execute_tool_call: [raised, result]
mcp_execute_tool_call(tool_call, fresh, env) ==
    LET call_id == IF tool_call.id = NoId THEN GeneratedCallId(fresh) ELSE tool_call.id
    IN  IF tool_call.name = ""
        THEN [raised |-> "tool_missing_name", result |-> NoResult]
        ELSE IF env = "db_error"
        THEN [raised |-> "db_error", result |-> NoResult]
        ELSE IF tool_call.name \notin RemoteTools
        THEN [raised |-> "mcp_unregistered", result |-> NoResult]
        ELSE IF tool_call.name = "off"
        THEN [raised |-> "mcp_disabled", result |-> NoResult]
        ELSE IF tool_call.name = "echo"
        THEN [raised |-> None, result |-> ToolResult(TRUE, call_id, tool_call.name)]
        ELSE [raised |-> None,
              result |-> ToolResult(env = "answer", call_id, tool_call.name)]

\* a variant of the except clause that hands every failure of the registry to
\* the remote adapter
retried_remotely_always(raised) == raised # None

\* except CustomException as exc: if exc.custom_code != 10002: raise
retried_remotely(raised) ==
    raised # None /\ isCustomException(raised) /\ custom_code(raised) = CodeNotFound

\* an entry of call_log: a call awaited by the tool loop or by the stream loop,
\* with what it raised (the step, for a provider call)
Call(target, name, info) == [target |-> target, name |-> name, info |-> info]

\* the try/except around the registry call in _run_completion_with_tools
execute_tool_call(tool_call, fresh, env) ==
    LET local == registry_execute_tool_call(tool_call, fresh)
    IN  IF retried_remotely(local.raised)
        THEN mcp_execute_tool_call(tool_call, fresh, env)
        ELSE local

(***************************************************************************)
(* Messages of the turn context, generated records, rows of the store.     *)
(***************************************************************************)
Message(role, content, tool_call_id, tool_calls) ==
    [role |-> role, content |-> content, tool_call_id |-> tool_call_id,
     tool_calls |-> tool_calls]

UserText == <<"u">>
UserMessage == Message("user", UserText, NoId, <<>>)

Record(role, content, tool_call_id, tool_calls, provider, reason) ==
    [role |-> role, content |-> content, tool_call_id |-> tool_call_id,
     tool_calls |-> tool_calls, provider |-> provider, reason |-> reason]

\* the record of a tool result; its extra carries ok
ToolRecord(tool_result) ==
    Record("tool", tool_result.content, tool_result.tool_call_id, <<>>, None,
           IF tool_result.ok THEN "ok" ELSE "not_ok")

\* an LLMMessage row; tag is the mark its extra carries
Row(role, content, tool_call_id, provider, tag) ==
    [role |-> role, content |-> content, tool_call_id |-> tool_call_id,
     provider |-> provider, tag |-> tag]

RowOfRecord(r) == Row(r.role, r.content, r.tool_call_id, r.provider, r.reason)

\* a variant that adds the rows last record first
RECURSIVE RowsOf_reversed(_)
RowsOf_reversed(records) ==
    IF records = <<>> THEN <<>>
    ELSE RowsOf_reversed(Tail(records)) \o <<RowOfRecord(Head(records))>>

\* the rows added for generated_records, in the order of the list
RECURSIVE RowsOf(_)
RowsOf(records) ==
    IF records = <<>> THEN <<>> ELSE <<RowOfRecord(Head(records))>> \o RowsOf(Tail(records))

(***************************************************************************)
(* State.                                                                  *)
(***************************************************************************)
VARIABLES
    config,             \* project_config: status, fallback_providers, auto_fallback,
                        \* max_tool_steps
    request,            \* LLMChatReq: conversation_id, provider, max_tool_steps
    mode,               \* "chat" (ChatService.chat) or "stream" (chat_stream)
    pc,                 \* where the run stands
    conversation,       \* None, or the conversation row's id
    primary_provider,
    error,              \* metric_error_code / metric_error_message
    result,             \* what chat() returned or raised
    metric_provider, metric_usage, metric_success,
    fallback_from, fallback_chain, usage_total,
    \* locals of _run_completion_with_fallback (chat) and of the candidate loop of
    \* chat_stream
    candidates, idx, rcf_fallback_from, rcf_fallback_chain, last_error, stream_error,
    \* locals of _run_completion_with_tools
    working_messages, generated_records, tool_runs, tl_usage_total, assistant_text,
    actual_provider, tool_call_pending, steps, pending_calls,
    \* locals of chat_stream
    events, assistant_parts, got_chunk, yielded_meta, selected_provider, chunks,
    \* the record store, the observability sink, the counter store
    db_messages, conv_provider, metrics, quota,
    \* history: per candidate visited, what was done with it (completion calls made,
    \* delta events emitted, how it ended); the failures that
    \* were swallowed; the calls of commit_token_usage
    attempts, faults, quota_commits,
    \* conversation memory: LLM_MEMORY_ENABLE, the rows list_messages returns, the
    \* stored memory_message_count, the count and the rows (by index) the run feeds
    \* its context from, the summarization calls made
    memory_enable, history_rows, memory_message_count, summarized_count, trimmed_rows,
    summary_calls,
    \* the consumer closed the stream
    cancelled,
    \* concurrent calls of enforce_before_request on one bucket
    quota_runs,
    \* request.use_tools, and whether the last provider call carried tool
    \* definitions
    use_tools, tools_sent, call_log,
    \* RAGService.ingest_document: where the call stands, the chunks of its text,
    \* the index of the chunk to embed, the rows its session holds uncommitted,
    \* the committed documents (chunk_count and committed chunk rows of each), the
    \* outcomes of the calls so far
    rag_pc, rag_chunks, rag_idx, rag_session, rag_store, rag_results

cfgVars == <<config, request, mode>>
runVars == <<conversation, primary_provider, error, result, metric_provider,
             metric_usage, metric_success, fallback_from, fallback_chain, usage_total>>
loopVars == <<candidates, idx, rcf_fallback_from, rcf_fallback_chain, last_error,
              stream_error>>
toolVars == <<working_messages, generated_records, tool_runs, tl_usage_total,
              assistant_text, actual_provider, tool_call_pending, steps, pending_calls>>
streamVars == <<events, assistant_parts, got_chunk, yielded_meta, selected_provider,
                chunks>>
storeVars == <<db_messages, conv_provider, metrics, quota>>
memVars == <<memory_enable, history_rows, memory_message_count, summarized_count,
             trimmed_rows, summary_calls>>
sideVars == <<cancelled, quota_runs>>
ragVars == <<rag_pc, rag_chunks, rag_idx, rag_session, rag_store, rag_results>>
auxVars == <<memVars, sideVars, use_tools, tools_sent, ragVars, call_log>>
vars == <<cfgVars, pc, runVars, loopVars, toolVars, streamVars, storeVars, attempts,
          faults, quota_commits, auxVars>>

\* LLM_FALLBACK_PROVIDERS, split at the commas
FallbackLists == {<<>>, <<"openai", "gemini">>, <<"deepseek", " ", "bogus", " OpenAI ">>}

NoResultYet ==
    [status |-> "none", error |-> None, provider |-> None, assistant_message |-> <<>>,
     fallback_from |-> None, fallback_to |-> None, fallback_chain |-> <<>>]

ZeroCounters == [p \in Providers |-> 0]

\* the counter store before the run: the buckets of the default provider are empty
\* or stand at their ceilings
\* project_config.LLM_RATE_LIMIT_REQUESTS_PER_MINUTE, ..._PER_DAY,
\* LLM_TOKEN_QUOTA_PER_DAY
ConfiguredLimits == [minute |-> MinuteLimit, day |-> DayLimit, token |-> TokenLimit]

QuotaStates ==
    {[enabled |-> FALSE, minute |-> ZeroCounters, day_req |-> ZeroCounters,
      day_tok |-> ZeroCounters, limits |-> ConfiguredLimits]}
    \cup
    {[enabled |-> TRUE,
      minute |-> [ZeroCounters EXCEPT ![default_llm_provider] = m],
      day_req |-> [ZeroCounters EXCEPT ![default_llm_provider] = d],
      day_tok |-> [ZeroCounters EXCEPT ![default_llm_provider] = t],
      limits |-> ConfiguredLimits] :
        m \in {0, MinuteLimit}, d \in {0, DayLimit}, t \in {0, TokenLimit}}

\* the state after construction of the services, before the run starts
InitWith(modes, statuses, lists, autos, cfgSteps, reqSteps, convIds, quotas) ==
    /\ mode \in modes
    /\ config \in [status : statuses, fallback_providers : lists,
                   auto_fallback : autos, max_tool_steps : cfgSteps]
    \* one configuration without fallback is enough
    /\ ~config.auto_fallback => config.fallback_providers = <<"openai", "gemini">>
    /\ request \in [conversation_id : convIds, provider : {None},
                    max_tool_steps : reqSteps]
    /\ quota \in quotas
    /\ pc = "load"
    /\ conversation = None
    /\ primary_provider = ""
    /\ error = None
    /\ result = NoResultYet
    /\ metric_provider = ""
    /\ metric_usage = EmptyUsage
    /\ metric_success = FALSE
    /\ fallback_from = None
    /\ fallback_chain = <<>>
    /\ usage_total = EmptyUsage
    /\ candidates = <<>>
    /\ idx = 0
    /\ rcf_fallback_from = None
    /\ rcf_fallback_chain = <<>>
    /\ last_error = None
    /\ stream_error = None
    /\ working_messages = <<>>
    /\ generated_records = <<>>
    /\ tool_runs = <<>>
    /\ tl_usage_total = EmptyUsage
    /\ assistant_text = <<>>
    /\ actual_provider = ""
    /\ tool_call_pending = FALSE
    /\ steps = 0
    /\ pending_calls = <<>>
    /\ events = <<>>
    /\ assistant_parts = <<>>
    /\ got_chunk = FALSE
    /\ yielded_meta = FALSE
    /\ selected_provider = ""
    /\ chunks = 0
    /\ db_messages = <<>>
    /\ conv_provider =
           IF request.conversation_id = "c1" THEN default_llm_provider ELSE None
    /\ metrics = <<>>
    /\ attempts = <<>>
    /\ faults = {}
    /\ quota_commits = <<>>

\* one call of enforce_before_request of a concurrent run
IdleRun == [pc |-> "incr_minute", minute_count |-> 0, day_count |-> 0]

\* the conversation memory, and what stands beside the run
InitStoreWith(memEnables, histories, runStates) ==
    /\ memory_enable \in memEnables
    /\ history_rows \in (IF request.conversation_id = "c1" THEN histories ELSE {0})
    /\ memory_message_count = 0
    /\ summarized_count = 0
    /\ trimmed_rows = {}
    /\ summary_calls = 0
    /\ cancelled = FALSE
    /\ quota_runs \in runStates

InitStore(memEnables, histories, nRuns) ==
    InitStoreWith(memEnables, histories, {[r \in 1..nRuns |-> IdleRun]})

\* a session without uncommitted rows
NoRows == [docs |-> 0, chunks |-> 0]

\* request.use_tools; no provider call has been made, no document ingested
InitTooling(flags) ==
    /\ use_tools \in flags
    /\ tools_sent = FALSE
    /\ call_log = <<>>
    /\ rag_pc = "idle"
    /\ rag_chunks = <<>>
    /\ rag_idx = 0
    /\ rag_session = NoRows
    /\ rag_store = <<>>
    /\ rag_results = <<>>

Init ==
    /\ InitTooling({TRUE})
    /\ InitWith({"chat", "stream"}, [Providers -> ProviderStatus], FallbackLists,
                BOOLEAN, {MaxSteps}, {0}, {None, "missing", "c1"}, QuotaStates)
    \* the conversation with a history has a healthy directory
    /\ request.conversation_id = "c1" =>
           /\ config.status = [p \in Providers |-> "ok"]
           /\ config.fallback_providers = <<"openai", "gemini">>
    /\ InitStore({TRUE}, {MaxHistory}, 0)

(***************************************************************************)
(* Quota gate (LLMQuotaService).  redis is what the counter store does     *)
(* during the call: "up", "down" (get_redis_pool raises), "broken" (a      *)
(* counter operation raises).                                              *)
(***************************************************************************)
RedisStates == {"up", "down", "broken"}

\* a variant of the token test that lets a request through at the ceiling
quota_used_up_beyond(used_tokens, token_limit) == used_tokens > token_limit

\* if used_tokens >= token_limit: raise
quota_used_up(used_tokens, token_limit) == used_tokens >= token_limit

\* LLMQuotaService.enforce_before_request: [quota, raised]
enforce_before_request(q, provider, redis) ==
    IF ~q.enabled \/ redis = "down" THEN [quota |-> q, raised |-> None]
    ELSE IF redis = "broken" THEN [quota |-> q, raised |-> "redis_error"]
    ELSE
    LET minute_limit == Max(1, q.limits.minute)
        day_limit == Max(0, q.limits.day)
        token_limit == Max(0, q.limits.token)
        q1 == [q EXCEPT !.minute[provider] = @ + 1]
        q2 == IF day_limit > 0 THEN [q1 EXCEPT !.day_req[provider] = @ + 1] ELSE q1
    IN  IF q1.minute[provider] > minute_limit
        THEN [quota |-> q1, raised |-> "rate_limited_minute"]
        ELSE IF day_limit > 0 /\ q2.day_req[provider] > day_limit
        THEN [quota |-> q2, raised |-> "rate_limited_day"]
        ELSE IF token_limit > 0 /\ quota_used_up(q2.day_tok[provider], token_limit)
        THEN [quota |-> q2, raised |-> "quota_exhausted"]
        ELSE [quota |-> q2, raised |-> None]

\* LLMQuotaService.commit_token_usage: [quota, raised]
commit_token_usage(q, provider, usage, redis) ==
    IF ~q.enabled \/ redis = "down" THEN [quota |-> q, raised |-> None]
    ELSE IF total_tokens_of(usage) <= 0 THEN [quota |-> q, raised |-> None]
    ELSE IF redis = "broken" THEN [quota |-> q, raised |-> "redis_error"]
    ELSE [quota |-> [q EXCEPT !.day_tok[provider] = @ + total_tokens_of(usage)],
          raised |-> None]

(***************************************************************************)
(* Conversation memory (ConversationMemoryService).  Rows are named by     *)
(* their index in the list list_messages returns, from 0.                  *)
(***************************************************************************)
\* what the summarization call does: it returns text, returns nothing, or raises
SummaryOutcomes == {"summary", "empty", "failed"}

\* a variant of the trigger test that waits for one more message
summary_due_later(unsummarized, trigger) == unsummarized > trigger

\* if unsummarized < trigger: return summary_text, summarized_count
summary_due(unsummarized, trigger) == unsummarized >= trigger

\* a variant of the except clause that goes on to store the new count
after_summary_call_storing(outcome, clamped, stored, cutoff) ==
    [count |-> cutoff, stored |-> cutoff, called |-> TRUE]

\* the statements after the summarization call: the except clause and the test
\* of the content return the state as it was, a summary is stored with the cutoff
after_summary_call(outcome, clamped, stored, cutoff) ==
    IF outcome # "summary"
    THEN [count |-> clamped, stored |-> stored, called |-> TRUE]
    ELSE [count |-> cutoff, stored |-> cutoff, called |-> TRUE]

\* what is noted of a summarization call that gave no summary
SummaryFaults == {"summary_failed", "summary_blank"}

summary_fault(called, outcome) ==
    IF called /\ outcome = "failed" THEN {"summary_failed"}
    ELSE IF called /\ outcome = "empty" THEN {"summary_blank"}
    ELSE {}

\* ConversationMemoryService.maybe_refresh_summary: the count it returns, the
\* count the conversation row holds afterwards, and whether it called the provider
maybe_refresh_summary(enabled, stored, history_size, outcome) ==
    LET unchanged(count) == [count |-> count, stored |-> stored, called |-> FALSE]
        clamped == Max(0, Min(stored, history_size))
        trigger == Max(TriggerFloor, SummaryTriggerMessages)
        keep_recent == Max(KeepFloor, Min(KeepRecentMessages, KeepCeiling))
        cutoff == Max(0, history_size - keep_recent)
        unsummarized == Max(0, cutoff - clamped)
    IN  IF ~enabled THEN unchanged(stored)
        ELSE IF history_size = 0 THEN unchanged(stored)
        ELSE IF ~summary_due(unsummarized, trigger) THEN unchanged(clamped)
        ELSE IF clamped >= cutoff THEN unchanged(clamped)
        ELSE after_summary_call(outcome, clamped, stored, cutoff)

\* a variant of the trimming that returns the whole history
trim_history_rows_all(history_size, count) == 0..(history_size - 1)

\* ConversationMemoryService.trim_history_rows: the indices of the rows kept
trim_history_rows(history_size, count) ==
    IF count <= 0 THEN 0..(history_size - 1)
    ELSE Max(0, Min(count, history_size))..(history_size - 1)

(***************************************************************************)
(* The run, up to the candidate loop.                                      *)
(***************************************************************************)
\* the turn context handed to the candidate loop
llm_messages == <<UserMessage>>

\* request_data.max_tool_steps or project_config.LLM_MAX_TOOL_STEPS
max_tool_steps ==
    IF request.max_tool_steps # 0 THEN request.max_tool_steps ELSE config.max_tool_steps

\* a variant of the exception path in which chat leaves without its finally clause
Raise_unrecorded(e) ==
    /\ error' = e
    /\ IF mode = "chat"
       THEN /\ result' = [NoResultYet EXCEPT !.status = "raised", !.error = e]
            /\ pc' = "done"
       ELSE /\ result' = result
            /\ pc' = "s_except"

\* an exception leaves the try block: chat re-raises it after its except clause,
\* chat_stream handles it in its except clause
Raise(e) ==
    /\ error' = e
    /\ IF mode = "chat"
       THEN /\ result' = [NoResultYet EXCEPT !.status = "raised", !.error = e]
            /\ pc' = "record"
       ELSE /\ result' = result
            /\ pc' = "s_except"

\* chat / chat_stream: get_conversation_or_raise, create_conversation
LoadConversation ==
    /\ pc = "load"
    /\ IF request.conversation_id = "c1"
       THEN \/ /\ conversation' = request.conversation_id
               /\ pc' = "resolve"
               /\ UNCHANGED <<error, result, conv_provider>>
            \/ /\ Raise("db_error")
               /\ UNCHANGED <<conversation, conv_provider>>
       ELSE IF request.conversation_id # None
       THEN /\ Raise("conversation_not_found")
            /\ UNCHANGED <<conversation, conv_provider>>
       ELSE LET r == resolve_provider(config, request.provider, FALSE)
            IN  IF ~r.ok
                THEN Raise(r.error) /\ UNCHANGED <<conversation, conv_provider>>
                ELSE \/ /\ conversation' = "conv"
                        /\ conv_provider' = r.provider
                        /\ pc' = "resolve"
                        /\ UNCHANGED <<error, result>>
                     \/ /\ Raise("db_error")
                        /\ UNCHANGED <<conversation, conv_provider>>
    /\ UNCHANGED <<cfgVars, primary_provider, metric_provider, metric_usage,
                   metric_success, fallback_from, fallback_chain, usage_total, loopVars,
                   toolVars, streamVars, db_messages, metrics, quota, attempts>>
    /\ UNCHANGED <<faults, quota_commits>>
    /\ UNCHANGED auxVars

\* chat / chat_stream: the resolution of the primary provider
ResolvePrimary ==
    /\ pc = "resolve"
    /\ LET provider == IF request.provider # None THEN request.provider
                       ELSE IF conv_provider # None THEN conv_provider
                       ELSE default_llm_provider
           r == resolve_provider(config, provider, TRUE)
       IN  IF ~r.ok
           THEN /\ Raise(r.error)
                /\ UNCHANGED <<primary_provider, metric_provider, selected_provider>>
           ELSE /\ primary_provider' = r.provider
                /\ metric_provider' = IF mode = "chat" THEN r.provider ELSE metric_provider
                /\ selected_provider' =
                       IF mode = "stream" THEN r.provider ELSE selected_provider
                /\ pc' = "quota"
                /\ UNCHANGED <<error, result>>
    /\ UNCHANGED <<cfgVars, conversation, metric_usage, metric_success, fallback_from,
                   fallback_chain, usage_total, loopVars, toolVars, events,
                   assistant_parts, got_chunk, yielded_meta, chunks, storeVars, attempts>>
    /\ UNCHANGED <<faults, quota_commits>>
    /\ UNCHANGED auxVars

\* a variant of the gate step that notes the rejection and lets the run go on
EnforceQuota_unaborted ==
    /\ pc = "quota"
    /\ \E redis \in RedisStates :
         LET r == enforce_before_request(quota, primary_provider, redis)
         IN  /\ quota' = r.quota
             /\ error' = r.raised
             /\ pc' = "context"
             /\ UNCHANGED result
    /\ UNCHANGED <<cfgVars, conversation, primary_provider, metric_provider, metric_usage,
                   metric_success, fallback_from, fallback_chain, usage_total, loopVars,
                   toolVars, streamVars, db_messages, conv_provider, metrics, attempts>>
    /\ UNCHANGED <<faults, quota_commits>>
    /\ UNCHANGED auxVars

\* chat / chat_stream: quota_service.enforce_before_request
EnforceQuota ==
    /\ pc = "quota"
    /\ \E redis \in RedisStates :
         LET r == enforce_before_request(quota, primary_provider, redis)
         IN  /\ quota' = r.quota
             /\ IF r.raised # None
                THEN Raise(r.raised)
                ELSE pc' = "context" /\ UNCHANGED <<error, result>>
    /\ UNCHANGED <<cfgVars, conversation, primary_provider, metric_provider, metric_usage,
                   metric_success, fallback_from, fallback_chain, usage_total, loopVars,
                   toolVars, streamVars, db_messages, conv_provider, metrics, attempts>>
    /\ UNCHANGED <<faults, quota_commits>>
    /\ UNCHANGED auxVars

\* chat / chat_stream: history, memory summary, retrieval, tool definitions
BuildContext ==
    /\ pc = "context"
    /\ \/ \E outcome \in SummaryOutcomes :
            LET m == maybe_refresh_summary(memory_enable, memory_message_count,
                                           history_rows, outcome)
            IN  /\ summarized_count' = m.count
                /\ memory_message_count' = m.stored
                /\ summary_calls' = IF m.called THEN summary_calls + 1 ELSE summary_calls
                /\ faults' = faults \cup summary_fault(m.called, outcome)
                /\ trimmed_rows' = trim_history_rows(history_rows, m.count)
                /\ pc' = IF mode = "chat" THEN "fallback" ELSE "persist_user"
                /\ candidates' =
                       IF mode = "chat"
                       THEN provider_candidates(config, primary_provider)
                       ELSE candidates
                /\ idx' = IF mode = "chat" THEN 1 ELSE idx
                /\ UNCHANGED <<error, result>>
       \/ /\ Raise("db_error")
          /\ UNCHANGED <<candidates, idx, summarized_count, memory_message_count,
                         summary_calls, trimmed_rows, faults>>
    /\ UNCHANGED <<cfgVars, conversation, primary_provider, metric_provider, metric_usage,
                   metric_success, fallback_from, fallback_chain, usage_total,
                   rcf_fallback_from, rcf_fallback_chain, last_error, stream_error,
                   toolVars, streamVars, storeVars, attempts>>
    /\ UNCHANGED <<quota_commits, memory_enable, history_rows, cancelled, quota_runs,
                   use_tools, tools_sent, ragVars, call_log>>

(***************************************************************************)
(* Single-shot path: _run_completion_with_fallback and                     *)
(* _run_completion_with_tools.                                             *)
(***************************************************************************)
Attempt(provider, resolved, outcome) ==
    [provider |-> provider, resolved |-> resolved, calls |-> 0, deltas |-> 0,
     outcome |-> outcome]

\* the last attempt, after one more call and with this outcome
Attempted(calls, outcome) ==
    [attempts EXCEPT ![Len(attempts)].calls = @ + calls, ![Len(attempts)].outcome = outcome]

\* a variant of the except clauses that moves on to the next candidate whatever
\* the error is
CandidateFailed_continuing(e) ==
    /\ last_error' = e
    /\ IF idx < Len(candidates)
       THEN idx' = idx + 1 /\ pc' = "fallback" /\ UNCHANGED <<error, result>>
       ELSE idx' = idx /\ Raise(e)

\* the except clauses of the candidate loop of _run_completion_with_fallback, and
\* the statements after the loop when it was the last candidate
CandidateFailed(e) ==
    /\ last_error' = e
    /\ IF is_fallback_candidate_error(e) /\ idx < Len(candidates)
       THEN idx' = idx + 1 /\ pc' = "fallback" /\ UNCHANGED <<error, result>>
       ELSE idx' = idx /\ Raise(e)

\* a variant in which the tool loop of the next candidate goes on with the context,
\* the records, the tool runs and the usage the loop before it left
FallbackResolve_resuming ==
    /\ mode = "chat"
    /\ pc = "fallback"
    /\ LET candidate_provider == candidates[idx]
           r == resolve_provider(config, candidate_provider, TRUE)
       IN  IF ~r.ok
           THEN /\ rcf_fallback_chain' = Append(rcf_fallback_chain, candidate_provider)
                /\ attempts' = Append(attempts, Attempt(candidate_provider, FALSE, r.error))
                /\ CandidateFailed(r.error)
                /\ UNCHANGED toolVars
           ELSE /\ rcf_fallback_chain' = Append(rcf_fallback_chain, r.provider)
                /\ attempts' = Append(attempts, Attempt(r.provider, TRUE, "running"))
                /\ working_messages' =
                       IF working_messages = <<>> THEN llm_messages ELSE working_messages
                /\ UNCHANGED <<generated_records, tool_runs, tl_usage_total>>
                /\ assistant_text' = <<>>
                /\ actual_provider' = r.provider
                /\ tool_call_pending' = FALSE
                /\ steps' = 0
                /\ pending_calls' = <<>>
                /\ pc' = "complete"
                /\ UNCHANGED <<idx, last_error, error, result>>
    /\ UNCHANGED <<cfgVars, conversation, primary_provider, metric_provider, metric_usage,
                   metric_success, fallback_from, fallback_chain, usage_total,
                   candidates, rcf_fallback_from, stream_error, streamVars, storeVars>>
    /\ UNCHANGED <<faults, quota_commits>>
    \* the calls of the candidate that is attempted now
    /\ call_log' = IF resolve_provider(config, candidates[idx], TRUE).ok THEN <<>>
                   ELSE call_log
    /\ UNCHANGED <<memVars, sideVars, use_tools, tools_sent, ragVars>>

\* _run_completion_with_fallback: the resolution of the next candidate
FallbackResolve ==
    /\ mode = "chat"
    /\ pc = "fallback"
    /\ LET candidate_provider == candidates[idx]
           r == resolve_provider(config, candidate_provider, TRUE)
       IN  IF ~r.ok
           THEN /\ rcf_fallback_chain' = Append(rcf_fallback_chain, candidate_provider)
                /\ attempts' = Append(attempts, Attempt(candidate_provider, FALSE, r.error))
                /\ CandidateFailed(r.error)
                /\ UNCHANGED toolVars
           ELSE /\ rcf_fallback_chain' = Append(rcf_fallback_chain, r.provider)
                /\ attempts' = Append(attempts, Attempt(r.provider, TRUE, "running"))
                /\ working_messages' = llm_messages
                /\ generated_records' = <<>>
                /\ tool_runs' = <<>>
                /\ tl_usage_total' = EmptyUsage
                /\ assistant_text' = <<>>
                /\ actual_provider' = r.provider
                /\ tool_call_pending' = FALSE
                /\ steps' = 0
                /\ pending_calls' = <<>>
                /\ pc' = "complete"
                /\ UNCHANGED <<idx, last_error, error, result>>
    /\ UNCHANGED <<cfgVars, conversation, primary_provider, metric_provider, metric_usage,
                   metric_success, fallback_from, fallback_chain, usage_total,
                   candidates, rcf_fallback_from, stream_error, streamVars, storeVars>>
    /\ UNCHANGED <<faults, quota_commits>>
    \* the calls of the candidate that is attempted now
    /\ call_log' = IF resolve_provider(config, candidates[idx], TRUE).ok THEN <<>>
                   ELSE call_log
    /\ UNCHANGED <<memVars, sideVars, use_tools, tools_sent, ragVars>>

\* a variant of the loop over the tool calls that starts with the last one
iteration_order_reversed(tool_calls) ==
    [i \in 1..Len(tool_calls) |-> tool_calls[Len(tool_calls) + 1 - i]]

\* for tool_call in tool_calls: the order in which the calls are executed
iteration_order(tool_calls) == tool_calls

\* the tool_calls of a completion result, with the ids the provider gave them
ToolCallsOf(calls, step) ==
    [i \in 1..Len(calls) |->
        [id |-> IF calls[i].has_id THEN ProviderCallId(step, i) ELSE NoId,
         name |-> calls[i].name]]

\* a variant of the return that names the primary as the origin of every answer
ReturnToChat_always_from(usage, provider) ==
    /\ rcf_fallback_from' = primary_provider
    /\ fallback_from' = primary_provider
    /\ fallback_chain' = rcf_fallback_chain
    /\ usage_total' = usage
    /\ metric_usage' = usage
    /\ metric_provider' = provider
    /\ pc' = "persist"

\* _run_completion_with_tools returns, then _run_completion_with_fallback returns
\* to chat, which takes over the results
ReturnToChat(usage, provider) ==
    /\ rcf_fallback_from' = IF idx > 1 THEN primary_provider ELSE None
    /\ fallback_from' = IF idx > 1 THEN primary_provider ELSE None
    /\ fallback_chain' = rcf_fallback_chain
    /\ usage_total' = usage
    /\ metric_usage' = usage
    /\ metric_provider' = provider
    /\ pc' = "persist"

\* one iteration of the tool loop, up to the completion result
Complete(failures, completions) ==
    /\ mode = "chat"
    /\ pc = "complete"
    /\ steps < Max(1, max_tool_steps)
    /\ \/ \E e \in failures :
            /\ CandidateFailed(e)
            /\ attempts' = Attempted(1, e)
            /\ UNCHANGED <<toolVars, rcf_fallback_from, fallback_from, fallback_chain,
                           usage_total, metric_usage, metric_provider>>
       \/ \E out \in completions :
            LET tool_calls == ToolCallsOf(out.calls, steps)
                usage == merge_usage(tl_usage_total, out.usage)
            IN  /\ actual_provider' = actual_provider
                /\ tl_usage_total' = usage
                /\ assistant_text' = out.content
                /\ working_messages' =
                       Append(working_messages,
                              Message("assistant", out.content, NoId, tool_calls))
                /\ generated_records' =
                       Append(generated_records,
                              Record("assistant", out.content, NoId, tool_calls,
                                     actual_provider, ""))
                /\ pending_calls' = iteration_order(tool_calls)
                /\ tool_call_pending' = (tool_calls # <<>>)
                /\ UNCHANGED <<tool_runs, steps, idx, last_error, error, result>>
                /\ IF tool_calls = <<>>
                   THEN /\ ReturnToChat(usage, actual_provider)
                        /\ attempts' = Attempted(1, "ok")
                   ELSE /\ pc' = "tools"
                        /\ attempts' = Attempted(1, "running")
                        /\ UNCHANGED <<rcf_fallback_from, fallback_from, fallback_chain,
                                       usage_total, metric_usage, metric_provider>>
    /\ UNCHANGED <<cfgVars, conversation, primary_provider, metric_success, candidates,
                   rcf_fallback_chain, stream_error, streamVars, storeVars>>
    /\ UNCHANGED <<faults, quota_commits>>
    \* tools=tools of the completion call: the definitions, when tools are in use
    /\ tools_sent' = use_tools
    \* await self.llm_client.chat_completion(...)
    /\ call_log' = Append(call_log, Call("provider", actual_provider, steps))
    /\ UNCHANGED <<memVars, sideVars, use_tools, ragVars>>

\* a variant of the step-limit record without its reason
StepLimitRecord_untagged(provider) ==
    Record("assistant", StepLimitText, NoId, <<>>, provider, "")

\* the record appended when the loop ends with tool calls pending
StepLimitRecord(provider) ==
    Record("assistant", StepLimitText, NoId, <<>>, provider, "max_tool_steps_exceeded")

\* the execution of the next tool call of the current assistant message, and the
\* end of the iteration after the last one
ExecuteTool(envs) ==
    /\ mode = "chat"
    /\ pc = "tools"
    /\ \E env \in envs :
         LET tool_call == Head(pending_calls)
             r == execute_tool_call(tool_call, Len(tool_runs), env)
             local == registry_execute_tool_call(tool_call, Len(tool_runs))
             rest == Tail(pending_calls)
             exhausted == rest = <<>> /\ steps + 1 >= Max(1, max_tool_steps)
         IN  /\ call_log' =
                    call_log \o <<Call("registry", tool_call.name, local.raised)>>
                    \o (IF retried_remotely(local.raised)
                        THEN <<Call("remote", tool_call.name, r.raised)>>
                        ELSE <<>>)
             /\ IF r.raised # None
                THEN /\ CandidateFailed(r.raised)
                     /\ attempts' = Attempted(0, r.raised)
                     /\ UNCHANGED <<toolVars, rcf_fallback_from, fallback_from,
                                    fallback_chain, usage_total, metric_usage,
                                    metric_provider>>
                ELSE /\ tool_runs' = Append(tool_runs, r.result)
                     /\ working_messages' =
                            Append(working_messages,
                                   Message("tool", r.result.content, r.result.tool_call_id,
                                           <<>>))
                     /\ pending_calls' = rest
                     /\ steps' = IF rest = <<>> THEN steps + 1 ELSE steps
                     /\ UNCHANGED <<tl_usage_total, actual_provider, tool_call_pending, idx,
                                    last_error, error, result>>
                     /\ IF exhausted
                        THEN /\ assistant_text' = StepLimitText
                             /\ generated_records' =
                                    generated_records \o
                                    <<ToolRecord(r.result), StepLimitRecord(actual_provider)>>
                             /\ ReturnToChat(tl_usage_total, actual_provider)
                             /\ attempts' = Attempted(0, "ok")
                        ELSE /\ assistant_text' = assistant_text
                             /\ generated_records' =
                                    Append(generated_records, ToolRecord(r.result))
                             /\ pc' = IF rest = <<>> THEN "complete" ELSE "tools"
                             /\ UNCHANGED <<attempts, rcf_fallback_from, fallback_from,
                                            fallback_chain, usage_total, metric_usage,
                                            metric_provider>>
    /\ UNCHANGED <<cfgVars, conversation, primary_provider, metric_success, candidates,
                   rcf_fallback_chain, stream_error, streamVars, storeVars>>
    /\ UNCHANGED <<faults, quota_commits>>
    /\ UNCHANGED <<memVars, sideVars, use_tools, tools_sent, ragVars>>

\* chat: the rows of the turn and the conversation, in one commit
PersistChat ==
    /\ mode = "chat"
    /\ pc = "persist"
    /\ \/ /\ db_messages' =
                 db_messages \o <<Row("user", UserText, NoId, actual_provider, "")>>
                 \o RowsOf(generated_records)
          /\ conv_provider' = actual_provider
          /\ pc' = "commit"
          /\ UNCHANGED <<error, result>>
       \/ /\ Raise("db_error")
          /\ UNCHANGED <<db_messages, conv_provider>>
    /\ UNCHANGED <<cfgVars, conversation, primary_provider, metric_provider, metric_usage,
                   metric_success, fallback_from, fallback_chain, usage_total, loopVars,
                   toolVars, streamVars, metrics, quota, attempts>>
    /\ UNCHANGED <<faults, quota_commits>>
    /\ UNCHANGED auxVars

\* a variant that commits the tokens to the bucket of the primary provider
CommitQuotaChat_to_primary ==
    /\ mode = "chat"
    /\ pc = "commit"
    /\ \E redis \in RedisStates :
         LET r == commit_token_usage(quota, primary_provider, usage_total, redis)
         IN  /\ quota' = r.quota
             /\ IF r.raised # None
                THEN Raise(r.raised) /\ UNCHANGED metric_success
                ELSE /\ metric_success' = TRUE
                     /\ result' =
                            [status |-> "returned", error |-> None,
                             provider |-> actual_provider,
                             assistant_message |-> assistant_text,
                             fallback_from |-> fallback_from,
                             fallback_to |->
                                 IF fallback_from # None THEN actual_provider ELSE None,
                             fallback_chain |->
                                 IF fallback_from # None THEN fallback_chain ELSE <<>>]
                     /\ pc' = "record"
                     /\ UNCHANGED error
    /\ UNCHANGED <<cfgVars, conversation, primary_provider, metric_provider, metric_usage,
                   fallback_from, fallback_chain, usage_total, loopVars, toolVars,
                   streamVars, db_messages, conv_provider, metrics, attempts>>
    /\ quota_commits' =
           Append(quota_commits,
                  [provider |-> actual_provider, tokens |-> total_tokens_of(usage_total)])
    /\ UNCHANGED faults
    /\ UNCHANGED auxVars

\* chat: quota_service.commit_token_usage, then the result is returned
CommitQuotaChat ==
    /\ mode = "chat"
    /\ pc = "commit"
    /\ \E redis \in RedisStates :
         LET r == commit_token_usage(quota, actual_provider, usage_total, redis)
         IN  /\ quota' = r.quota
             /\ IF r.raised # None
                THEN Raise(r.raised) /\ UNCHANGED metric_success
                ELSE /\ metric_success' = TRUE
                     /\ result' =
                            [status |-> "returned", error |-> None,
                             provider |-> actual_provider,
                             assistant_message |-> assistant_text,
                             fallback_from |-> fallback_from,
                             fallback_to |->
                                 IF fallback_from # None THEN actual_provider ELSE None,
                             fallback_chain |->
                                 IF fallback_from # None THEN fallback_chain ELSE <<>>]
                     /\ pc' = "record"
                     /\ UNCHANGED error
    /\ UNCHANGED <<cfgVars, conversation, primary_provider, metric_provider, metric_usage,
                   fallback_from, fallback_chain, usage_total, loopVars, toolVars,
                   streamVars, db_messages, conv_provider, metrics, attempts>>
    /\ quota_commits' =
           Append(quota_commits,
                  [provider |-> actual_provider, tokens |-> total_tokens_of(usage_total)])
    /\ UNCHANGED faults
    /\ UNCHANGED auxVars

(***************************************************************************)
(* Observability: the finally clause of chat and of chat_stream.           *)
(***************************************************************************)
MetricRow ==
    [is_stream |-> mode = "stream",
     success |-> metric_success,
     provider |->
         IF mode = "chat"
         THEN (IF metric_provider # "" THEN metric_provider
               ELSE IF primary_provider # "" THEN primary_provider
               ELSE default_llm_provider)
         ELSE (IF selected_provider # "" THEN selected_provider
               ELSE IF primary_provider # "" THEN primary_provider
               ELSE default_llm_provider),
     total_tokens |->
         IF mode = "chat" \/ metric_usage # EmptyUsage
         THEN total_tokens_of(metric_usage) ELSE total_tokens_of(usage_total),
     error |-> error,
     fallback_from |-> fallback_from,
     fallback_chain |-> fallback_chain]

\* a variant of the recording step that lets the failure of the sink out
RecordObservability_raising ==
    /\ pc = "record"
    /\ \/ /\ metrics' = Append(metrics, MetricRow)
          /\ UNCHANGED <<faults, error, result>>
       \/ /\ metrics' = metrics
          /\ faults' = faults \cup {"sink"}
          /\ error' = "db_error"
          /\ result' = [NoResultYet EXCEPT !.status = "raised", !.error = "db_error"]
    /\ pc' = "done"
    /\ UNCHANGED quota_commits
    /\ UNCHANGED <<cfgVars, conversation, primary_provider, metric_provider, metric_usage,
                   metric_success, fallback_from, fallback_chain, usage_total, loopVars,
                   toolVars, streamVars, db_messages, conv_provider, quota, attempts>>
    /\ UNCHANGED auxVars

\* LLMObservabilityService.safe_record: the sink stores the row, or fails and the
\* failure is swallowed
RecordObservability ==
    /\ pc = "record"
    /\ \/ metrics' = Append(metrics, MetricRow) /\ faults' = faults
       \/ metrics' = metrics /\ faults' = faults \cup {"sink"}
    /\ pc' = "done"
    /\ UNCHANGED quota_commits
    /\ UNCHANGED <<cfgVars, runVars, loopVars, toolVars, streamVars, db_messages,
                   conv_provider, quota, attempts>>
    /\ UNCHANGED auxVars

(***************************************************************************)
(* Streaming path: chat_stream.                                            *)
(***************************************************************************)
Event(event, provider, text, note) ==
    [event |-> event, provider |-> provider, text |-> text, note |-> note,
     fallback_from |-> None, fallback_chain |-> <<>>]

DoneEvent(provider, text, from, chain) ==
    [event |-> "done", provider |-> provider, text |-> text, note |-> "",
     fallback_from |-> from,
     fallback_chain |-> IF from # None THEN chain ELSE <<>>]

\* a variant that enters the candidate loop without the commit
PersistUser_deferred ==
    /\ mode = "stream"
    /\ pc = "persist_user"
    /\ candidates' = provider_candidates(config, primary_provider)
    /\ idx' = 1
    /\ pc' = "s_fallback"
    /\ UNCHANGED <<error, result, db_messages, conv_provider>>
    /\ UNCHANGED <<cfgVars, conversation, primary_provider, metric_provider, metric_usage,
                   metric_success, fallback_from, fallback_chain, usage_total,
                   rcf_fallback_from, rcf_fallback_chain, last_error, stream_error,
                   toolVars, streamVars, metrics, quota, attempts>>
    /\ UNCHANGED <<faults, quota_commits>>
    /\ UNCHANGED auxVars

\* chat_stream: the user row and the conversation, committed before the loop
PersistUser ==
    /\ mode = "stream"
    /\ pc = "persist_user"
    /\ \/ /\ db_messages' =
                 Append(db_messages, Row("user", UserText, NoId, primary_provider, "stream"))
          /\ conv_provider' = primary_provider
          /\ candidates' = provider_candidates(config, primary_provider)
          /\ idx' = 1
          /\ pc' = "s_fallback"
          /\ UNCHANGED <<error, result>>
       \/ /\ Raise("db_error")
          /\ UNCHANGED <<db_messages, conv_provider, candidates, idx>>
    /\ UNCHANGED <<cfgVars, conversation, primary_provider, metric_provider, metric_usage,
                   metric_success, fallback_from, fallback_chain, usage_total,
                   rcf_fallback_from, rcf_fallback_chain, last_error, stream_error,
                   toolVars, streamVars, metrics, quota, attempts>>
    /\ UNCHANGED <<faults, quota_commits>>
    /\ UNCHANGED auxVars

\* the continue statements of the candidate loop of chat_stream, and the raise
\* after the loop when it was the last candidate
StreamCandidateSkipped(e) ==
    IF idx < Len(candidates)
    THEN idx' = idx + 1 /\ pc' = "s_fallback" /\ UNCHANGED <<error, result>>
    ELSE idx' = idx /\ Raise(e)

\* a variant without the notice about tools
candidate_warning_silent(i, tools_requested) == IF i > 1 THEN "switched" ELSE ""

\* chat_stream: candidate_warning, the warning of the meta event of candidate i
candidate_warning(i, tools_requested) ==
    IF i > 1 THEN "switched" ELSE IF tools_requested THEN "tools_disabled" ELSE ""

\* a variant that leaves a candidate it resolved out of the trace
StreamResolve_untraced ==
    /\ mode = "stream"
    /\ pc = "s_fallback"
    /\ LET candidate_provider == candidates[idx]
           r == resolve_provider(config, candidate_provider, TRUE)
       IN  IF ~r.ok
           THEN /\ stream_error' = r.error
                /\ fallback_chain' = Append(fallback_chain, candidate_provider)
                /\ attempts' = Append(attempts, Attempt(candidate_provider, FALSE, r.error))
                /\ IF ~is_fallback_candidate_error(r.error)
                   THEN idx' = idx /\ Raise(r.error)
                   ELSE StreamCandidateSkipped(r.error)
                /\ UNCHANGED <<events, yielded_meta, got_chunk, chunks>>
           ELSE /\ fallback_chain' = fallback_chain
                /\ attempts' = Append(attempts, Attempt(r.provider, TRUE, "running"))
                /\ events' =
                       IF ~yielded_meta \/ idx > 1
                       THEN Append(events,
                                   Event("meta", r.provider, <<>>,
                                         candidate_warning(idx, use_tools)))
                       ELSE events
                /\ yielded_meta' = TRUE
                /\ got_chunk' = FALSE
                /\ chunks' = 0
                /\ pc' = "stream"
                /\ UNCHANGED <<idx, stream_error, error, result>>
    /\ UNCHANGED <<cfgVars, conversation, primary_provider, metric_provider, metric_usage,
                   metric_success, fallback_from, usage_total, candidates,
                   rcf_fallback_from, rcf_fallback_chain, last_error, toolVars,
                   assistant_parts, selected_provider, storeVars>>
    /\ UNCHANGED <<faults, quota_commits>>
    /\ call_log' = IF resolve_provider(config, candidates[idx], TRUE).ok THEN <<>>
                   ELSE call_log
    /\ UNCHANGED <<memVars, sideVars, use_tools, tools_sent, ragVars>>

\* chat_stream: the resolution of the next candidate and its meta event
StreamResolve ==
    /\ mode = "stream"
    /\ pc = "s_fallback"
    /\ LET candidate_provider == candidates[idx]
           r == resolve_provider(config, candidate_provider, TRUE)
       IN  IF ~r.ok
           THEN /\ stream_error' = r.error
                /\ fallback_chain' = Append(fallback_chain, candidate_provider)
                /\ attempts' = Append(attempts, Attempt(candidate_provider, FALSE, r.error))
                /\ IF ~is_fallback_candidate_error(r.error)
                   THEN idx' = idx /\ Raise(r.error)
                   ELSE StreamCandidateSkipped(r.error)
                /\ UNCHANGED <<events, yielded_meta, got_chunk, chunks>>
           ELSE /\ fallback_chain' = Append(fallback_chain, r.provider)
                /\ attempts' = Append(attempts, Attempt(r.provider, TRUE, "running"))
                /\ events' =
                       IF ~yielded_meta \/ idx > 1
                       THEN Append(events,
                                   Event("meta", r.provider, <<>>,
                                         candidate_warning(idx, use_tools)))
                       ELSE events
                /\ yielded_meta' = TRUE
                /\ got_chunk' = FALSE
                /\ chunks' = 0
                /\ pc' = "stream"
                /\ UNCHANGED <<idx, stream_error, error, result>>
    /\ UNCHANGED <<cfgVars, conversation, primary_provider, metric_provider, metric_usage,
                   metric_success, fallback_from, usage_total, candidates,
                   rcf_fallback_from, rcf_fallback_chain, last_error, toolVars,
                   assistant_parts, selected_provider, storeVars>>
    /\ UNCHANGED <<faults, quota_commits>>
    /\ call_log' = IF resolve_provider(config, candidates[idx], TRUE).ok THEN <<>>
                   ELSE call_log
    /\ UNCHANGED <<memVars, sideVars, use_tools, tools_sent, ragVars>>

\* a variant in which no failure of a candidate's stream ends the run
stream_failure_is_fatal_never(seen_chunk, e) == FALSE

\* must the failure of a candidate's stream end the run?
stream_failure_is_fatal(seen_chunk, e) ==
    seen_chunk \/ ~is_fallback_candidate_error(e)

\* chat_stream: the next step of the candidate's stream: it raises, yields a chunk,
\* or ends
StreamStep(failures, chunk_inputs) ==
    /\ mode = "stream"
    /\ pc = "stream"
    /\ \/ \E e \in failures :
            \* a status >= 400 is seen when the stream is opened
            /\ e = "stream_request_failed" => chunks = 0
            /\ stream_error' = e
            /\ attempts' = Attempted(0, e)
            /\ IF stream_failure_is_fatal(got_chunk, e)
               THEN idx' = idx /\ Raise(e)
               ELSE StreamCandidateSkipped(e)
            /\ UNCHANGED <<got_chunk, chunks, selected_provider, fallback_from,
                           usage_total, assistant_parts, events>>
       \/ \E chunk \in chunk_inputs :
            LET delta_text == chunk.delta
                usage == chunk.usage
            IN
            /\ chunks < MaxChunks
            /\ chunks' = chunks + 1
            /\ got_chunk' = TRUE
            /\ selected_provider' =
                   IF ~got_chunk THEN candidates[idx] ELSE selected_provider
            /\ fallback_from' =
                   IF ~got_chunk /\ idx > 1 THEN primary_provider ELSE fallback_from
            /\ usage_total' = merge_usage(usage_total, usage)
            /\ assistant_parts' =
                   IF delta_text # <<>> THEN Append(assistant_parts, delta_text)
                   ELSE assistant_parts
            /\ events' =
                   IF delta_text # <<>>
                   THEN Append(events, Event("delta", None, delta_text, ""))
                   ELSE events
            /\ attempts' =
                   [Attempted(IF chunks = 0 THEN 1 ELSE 0, "running")
                    EXCEPT ![Len(attempts)].deltas =
                               IF delta_text # <<>> THEN @ + 1 ELSE @]
            /\ UNCHANGED <<pc, idx, stream_error, error, result>>
       \/ /\ selected_provider' = IF ~got_chunk THEN candidates[idx] ELSE selected_provider
          /\ fallback_from' =
                 IF ~got_chunk /\ idx > 1 THEN primary_provider ELSE fallback_from
          /\ stream_error' = None
          /\ attempts' = Attempted(IF chunks = 0 THEN 1 ELSE 0, "ok")
          /\ pc' = "s_persist"
          /\ UNCHANGED <<got_chunk, chunks, usage_total, assistant_parts, events, idx,
                         error, result>>
    /\ UNCHANGED <<cfgVars, conversation, primary_provider, metric_provider, metric_usage,
                   metric_success, fallback_chain, candidates, rcf_fallback_from,
                   rcf_fallback_chain, last_error, toolVars, yielded_meta, storeVars>>
    /\ UNCHANGED <<faults, quota_commits>>
    \* chat_completion_stream is called without tools
    /\ tools_sent' = FALSE
    \* the stream is opened when its first item is awaited
    /\ call_log' = IF chunks = 0 /\ ~got_chunk
                   THEN Append(call_log, Call("provider", candidates[idx], 0))
                   ELSE call_log
    /\ UNCHANGED <<memVars, sideVars, use_tools, ragVars>>

\* a variant that goes on to the token commit without the final row
PersistAssistant_deferred ==
    /\ mode = "stream"
    /\ pc = "s_persist"
    /\ \/ /\ pc' = "s_commit"
          /\ UNCHANGED <<db_messages, conv_provider, error, result>>
       \/ /\ Raise("db_error")
          /\ UNCHANGED <<db_messages, conv_provider>>
    /\ UNCHANGED <<cfgVars, conversation, primary_provider, metric_provider, metric_usage,
                   metric_success, fallback_from, fallback_chain, usage_total, loopVars,
                   toolVars, streamVars, metrics, quota, attempts>>
    /\ UNCHANGED <<faults, quota_commits>>
    /\ UNCHANGED auxVars

\* chat_stream: the final assistant row and the conversation, in one commit
PersistAssistant ==
    /\ mode = "stream"
    /\ pc = "s_persist"
    /\ \/ /\ db_messages' =
                 Append(db_messages,
                        Row("assistant", strip(join(assistant_parts)), NoId,
                            selected_provider, "stream"))
          /\ conv_provider' = selected_provider
          /\ pc' = "s_commit"
          /\ UNCHANGED <<error, result>>
       \/ /\ Raise("db_error")
          /\ UNCHANGED <<db_messages, conv_provider>>
    /\ UNCHANGED <<cfgVars, conversation, primary_provider, metric_provider, metric_usage,
                   metric_success, fallback_from, fallback_chain, usage_total, loopVars,
                   toolVars, streamVars, metrics, quota, attempts>>
    /\ UNCHANGED <<faults, quota_commits>>
    /\ UNCHANGED auxVars

\* chat_stream: quota_service.commit_token_usage
CommitQuotaStream ==
    /\ mode = "stream"
    /\ pc = "s_commit"
    /\ \E redis \in RedisStates :
         LET r == commit_token_usage(quota, selected_provider, usage_total, redis)
         IN  /\ quota' = r.quota
             /\ IF r.raised # None
                THEN Raise(r.raised) /\ UNCHANGED <<metric_usage, metric_success>>
                ELSE /\ metric_usage' = usage_total
                     /\ metric_success' = TRUE
                     /\ pc' = "s_done"
                     /\ UNCHANGED <<error, result>>
    /\ UNCHANGED <<cfgVars, conversation, primary_provider, metric_provider,
                   fallback_from, fallback_chain, usage_total, loopVars, toolVars,
                   streamVars, db_messages, conv_provider, metrics, attempts>>
    /\ quota_commits' =
           Append(quota_commits,
                  [provider |-> selected_provider, tokens |-> total_tokens_of(usage_total)])
    /\ UNCHANGED faults
    /\ UNCHANGED auxVars

\* chat_stream: the done event
EmitDone ==
    /\ mode = "stream"
    /\ pc = "s_done"
    /\ events' =
           Append(events,
                  DoneEvent(selected_provider, strip(join(assistant_parts)),
                            fallback_from, fallback_chain))
    /\ pc' = "record"
    /\ UNCHANGED <<cfgVars, runVars, loopVars, toolVars, assistant_parts, got_chunk,
                   yielded_meta, selected_provider, chunks, storeVars, attempts>>
    /\ UNCHANGED <<faults, quota_commits>>
    /\ UNCHANGED auxVars

\* a variant of the partial text that keeps the surrounding whitespace
partial_text_unstripped(parts) == join(parts)

\* the text the except clause of chat_stream persists
partial_text(parts) == strip(join(parts))

\* chat_stream: the except clause: the partial assistant row, then the error event
StreamExcept ==
    /\ mode = "stream"
    /\ pc = "s_except"
    /\ LET text == partial_text(assistant_parts)
       IN  IF conversation # None /\ text # <<>>
           THEN \/ /\ db_messages' =
                        Append(db_messages,
                               Row("assistant", text, NoId,
                                   IF selected_provider # "" THEN selected_provider
                                   ELSE primary_provider,
                                   "partial"))
                   /\ faults' = faults
                \/ /\ db_messages' = db_messages
                   /\ faults' = faults \cup {"partial_persist"}
           ELSE db_messages' = db_messages /\ faults' = faults
    /\ UNCHANGED quota_commits
    /\ events' = Append(events, Event("error", None, <<>>, error))
    /\ pc' = "record"
    /\ UNCHANGED <<cfgVars, runVars, loopVars, toolVars, assistant_parts, got_chunk,
                   yielded_meta, selected_provider, chunks, conv_provider, metrics,
                   quota, attempts>>
    /\ UNCHANGED auxVars

(***************************************************************************)
(* What the environment hands the run.                                     *)
(***************************************************************************)
Usage1 == [k \in {"total_tokens"} |-> 1]
Usages == {EmptyUsage, Usage1}

\* completion results without tool calls, and with 1..n calls: the first of one
\* of kinds, the others of one of tailKinds
CallKinds(hasIds, names) == [has_id : hasIds, name : names]

Completions(kinds, tailKinds, n, usages) ==
    [content : {<<"a">>}, calls : {<<>>}, usage : usages]
    \cup [content : {<<>>},
          calls : UNION {{<<h>> \o t : h \in kinds, t \in [1..(k - 1) -> tailKinds]} :
                             k \in 1..n},
          usage : {Usage1}]

\* chunks of a stream: without content (a usage update), of whitespace, of text
StreamChunks ==
    {[delta |-> <<>>, usage |-> Usage1], [delta |-> <<" ">>, usage |-> EmptyUsage],
     [delta |-> <<"a">>, usage |-> Usage1]}

(***************************************************************************)
(* Specification of one run, single-shot or streaming.                     *)
(***************************************************************************)
Next ==
    \/ LoadConversation
    \/ ResolvePrimary
    \/ EnforceQuota
    \/ BuildContext
    \/ FallbackResolve
    \/ Complete({"request_failed", "network_error"},
                Completions(CallKinds({TRUE}, {"calc", "ghost"}),
                            CallKinds({TRUE}, {"calc"}), MaxToolCalls, Usages))
    \/ ExecuteTool(RemoteEnv)
    \/ PersistChat
    \/ CommitQuotaChat
    \/ PersistUser
    \/ StreamResolve
    \/ StreamStep({"stream_request_failed", "network_error"}, StreamChunks)
    \/ PersistAssistant
    \/ CommitQuotaStream
    \/ EmitDone
    \/ StreamExcept
    \/ RecordObservability

Spec == Init /\ [][Next]_vars

(***************************************************************************)
(* Specification of single-shot runs on one healthy candidate, with every  *)
(* kind of tool call a provider can return.                                *)
(***************************************************************************)
Healthy == [p \in Providers |-> "ok"]
QuotaOff == {q \in QuotaStates : ~q.enabled}

\* tool calls with the provider's id, of every tool name; one without an id
ToolCallKinds ==
    CallKinds({TRUE}, LocalTools \cup RemoteTools \cup {"ghost", ""})
    \cup CallKinds({FALSE}, {"calc"})

InitTools ==
    /\ InitTooling({TRUE})
    /\ InitWith({"chat"}, {Healthy}, {<<"openai", "gemini">>}, {FALSE}, {MaxSteps},
                {0, 1}, {None}, QuotaOff)
    /\ InitStore({FALSE}, {0}, 0)

NextTools ==
    \/ LoadConversation
    \/ ResolvePrimary
    \/ EnforceQuota
    \/ BuildContext
    \/ FallbackResolve
    \/ Complete(CallErrors \ {"stream_request_failed"},
                Completions(ToolCallKinds, CallKinds({TRUE}, {"calc", "boom"}),
                            MaxToolCallsT, {Usage1}))
    \/ ExecuteTool(RemoteEnv)
    \/ PersistChat
    \/ CommitQuotaChat
    \/ RecordObservability

SpecTools == InitTools /\ [][NextTools]_vars

(***************************************************************************)
(* Specification of single-shot runs whose assistant messages carry up to  *)
(* MaxToolCallsT calls of a local and of a remote tool.                    *)
(***************************************************************************)
OrderedCallKinds == CallKinds({TRUE}, {"calc", "echo"})

InitOrder ==
    /\ InitTooling({TRUE})
    /\ InitWith({"chat"}, {Healthy}, {<<"openai", "gemini">>}, {FALSE}, {MaxSteps}, {0},
                {None}, QuotaOff)
    /\ InitStore({FALSE}, {0}, 0)

NextOrder ==
    \/ LoadConversation
    \/ ResolvePrimary
    \/ EnforceQuota
    \/ BuildContext
    \/ FallbackResolve
    \/ Complete({"request_failed"},
                Completions(OrderedCallKinds \cup CallKinds({FALSE}, {"calc"}),
                            OrderedCallKinds, MaxToolCallsT, {Usage1}))
    \/ ExecuteTool({"answer"})
    \/ PersistChat
    \/ CommitQuotaChat
    \/ RecordObservability

SpecOrder == InitOrder /\ [][NextOrder]_vars

(***************************************************************************)
(* Specification of runs whose completion results and stream chunks carry  *)
(* usage dicts with values that are and are not numbers.  The text of a    *)
(* result or of a chunk tells which usage dict came with it.               *)
(***************************************************************************)
\* the usage dict that comes with the text t: "a" a token count, "b" a total that
\* is not a number and a count of cached tokens, "c" a total and cached tokens
\* that are not a number
UsageOf(t) ==
    IF t = "a" THEN Usage1
    ELSE [k \in {"total_tokens", "cached_tokens"} |->
             IF t = "b" THEN (IF k = "total_tokens" THEN -1 ELSE 1)
             ELSE (IF k = "total_tokens" THEN 2 ELSE -1)]

InitUsage ==
    /\ InitTooling({TRUE})
    /\ InitWith({"chat", "stream"}, {Healthy}, {<<"openai", "gemini">>}, {FALSE},
                {MaxSteps}, {0}, {None}, QuotaOff)
    /\ InitStore({FALSE}, {0}, 0)

NextUsage ==
    \/ LoadConversation
    \/ ResolvePrimary
    \/ EnforceQuota
    \/ BuildContext
    \/ FallbackResolve
    \/ Complete({"request_failed"},
                {[content |-> <<t>>, calls |-> c, usage |-> UsageOf(t)] :
                     t \in {"a", "b", "c"},
                     c \in {<<>>, <<[has_id |-> TRUE, name |-> "calc"]>>}})
    \/ ExecuteTool({"answer"})
    \/ PersistChat
    \/ CommitQuotaChat
    \/ PersistUser
    \/ StreamResolve
    \/ StreamStep({"stream_request_failed"},
                  {[delta |-> <<t>>, usage |-> UsageOf(t)] : t \in {"a", "b", "c"}})
    \/ PersistAssistant
    \/ CommitQuotaStream
    \/ EmitDone
    \/ StreamExcept
    \/ RecordObservability

SpecUsage == InitUsage /\ [][NextUsage]_vars

(***************************************************************************)
(* Specification of runs of both paths on a chain of three healthy         *)
(* candidates with quota enabled: the buckets of the primary are empty or  *)
(* its tokens are used up, the buckets of the first alternate are empty or *)
(* stand at their ceilings.                                                *)
(***************************************************************************)
InitBuckets ==
    /\ InitTooling({TRUE})
    /\ InitWith({"chat", "stream"}, {Healthy}, {<<"openai", "gemini">>}, {TRUE},
                {MaxSteps}, {0}, {None},
                {[enabled |-> TRUE,
                  minute |-> [ZeroCounters EXCEPT !["openai"] = m],
                  day_req |-> [ZeroCounters EXCEPT !["openai"] = d],
                  day_tok |-> [ZeroCounters EXCEPT ![default_llm_provider] = t,
                                                   !["openai"] = a],
                  limits |-> ConfiguredLimits] :
                     m \in {0, MinuteLimit}, d \in {0, DayLimit},
                     t \in {0, TokenLimit}, a \in {0, TokenLimit}})
    /\ InitStore({FALSE}, {0}, 0)

NextBuckets ==
    \/ LoadConversation
    \/ ResolvePrimary
    \/ EnforceQuota
    \/ BuildContext
    \/ FallbackResolve
    \/ Complete({"request_failed"},
                Completions(CallKinds({TRUE}, {"calc"}), CallKinds({TRUE}, {"calc"}),
                            MaxToolCalls, Usages))
    \/ ExecuteTool({"answer"})
    \/ PersistChat
    \/ CommitQuotaChat
    \/ PersistUser
    \/ StreamResolve
    \/ StreamStep({"stream_request_failed"}, StreamChunks)
    \/ PersistAssistant
    \/ CommitQuotaStream
    \/ EmitDone
    \/ StreamExcept
    \/ RecordObservability

SpecBuckets == InitBuckets /\ [][NextBuckets]_vars

(***************************************************************************)
(* Specification of single-shot runs under every step limit the request    *)
(* and the configuration can supply.                                       *)
(***************************************************************************)
InitSteps ==
    /\ InitTooling({TRUE})
    /\ InitWith({"chat"}, {Healthy}, {<<"openai", "gemini">>}, {FALSE}, 0..MaxCfgSteps,
                0..MaxToolStepsCeiling, {None}, QuotaOff)
    /\ InitStore({FALSE}, {0}, 0)

NextSteps ==
    \/ LoadConversation
    \/ ResolvePrimary
    \/ EnforceQuota
    \/ BuildContext
    \/ FallbackResolve
    \/ Complete({"request_failed"},
                Completions(CallKinds({TRUE}, {"calc"}), CallKinds({TRUE}, {"calc"}),
                            MaxToolCalls, {Usage1}))
    \/ ExecuteTool({"answer"})
    \/ PersistChat
    \/ CommitQuotaChat
    \/ RecordObservability

SpecSteps == InitSteps /\ [][NextSteps]_vars

(***************************************************************************)
(* Specification of concurrent calls of enforce_before_request on one      *)
(* bucket (same owner, provider, model and minute).  Each await of a       *)
(* counter operation is a step; redis executes INCR atomically.            *)
(***************************************************************************)
Runs == 1..MaxRuns

Bucket == default_llm_provider

\* a variant of the ceiling test that lets one more request through
over_limit_late(count, limit) == count > limit + 1

\* minute_count > minute_limit, day_count > day_limit
over_limit(count, limit) == count > limit

QuotaStep(r, next_pc) == quota_runs' = [quota_runs EXCEPT ![r].pc = next_pc]

QuotaFrame ==
    UNCHANGED <<cfgVars, pc, runVars, loopVars, toolVars, streamVars, db_messages,
                conv_provider, metrics, attempts, faults, quota_commits, memVars,
                cancelled, use_tools, tools_sent, ragVars, call_log>>

\* minute_count = await redis.incr(minute_key)
RedisIncrMinute(r) ==
    /\ quota_runs[r].pc = "incr_minute"
    /\ quota' = [quota EXCEPT !.minute[Bucket] = @ + 1]
    /\ quota_runs' = [quota_runs EXCEPT ![r].pc = "check_minute",
                                        ![r].minute_count = quota.minute[Bucket] + 1]
    /\ QuotaFrame

\* if minute_count > minute_limit: raise
CheckMinute(r) ==
    /\ quota_runs[r].pc = "check_minute"
    /\ IF over_limit(quota_runs[r].minute_count, Max(1, quota.limits.minute))
       THEN QuotaStep(r, "rate_limited_minute")
       ELSE IF Max(0, quota.limits.day) > 0 THEN QuotaStep(r, "incr_day")
       ELSE QuotaStep(r, "check_tokens")
    /\ UNCHANGED quota
    /\ QuotaFrame

\* day_count = await redis.incr(day_req_key)
RedisIncrDay(r) ==
    /\ quota_runs[r].pc = "incr_day"
    /\ quota' = [quota EXCEPT !.day_req[Bucket] = @ + 1]
    /\ quota_runs' = [quota_runs EXCEPT ![r].pc = "check_day",
                                        ![r].day_count = quota.day_req[Bucket] + 1]
    /\ QuotaFrame

\* if day_count > day_limit: raise
CheckDay(r) ==
    /\ quota_runs[r].pc = "check_day"
    /\ IF over_limit(quota_runs[r].day_count, Max(0, quota.limits.day))
       THEN QuotaStep(r, "rate_limited_day")
       ELSE QuotaStep(r, "check_tokens")
    /\ UNCHANGED quota
    /\ QuotaFrame

\* used_tokens = await redis.get(day_tok_key); if used_tokens >= token_limit: raise
CheckTokens(r) ==
    /\ quota_runs[r].pc = "check_tokens"
    /\ IF /\ Max(0, quota.limits.token) > 0
          /\ quota_used_up(quota.day_tok[Bucket], Max(0, quota.limits.token))
       THEN QuotaStep(r, "quota_exhausted")
       ELSE QuotaStep(r, "passed")
    /\ UNCHANGED quota
    /\ QuotaFrame

InitQuota ==
    /\ InitTooling({TRUE})
    /\ InitWith({"chat"}, {Healthy}, {<<"openai", "gemini">>}, {FALSE}, {MaxSteps}, {0},
                {None}, QuotaStates \ QuotaOff)
    /\ InitStore({FALSE}, {0}, MaxRuns)

NextQuota ==
    \/ \E r \in Runs : RedisIncrMinute(r)
    \/ \E r \in Runs : CheckMinute(r)
    \/ \E r \in Runs : RedisIncrDay(r)
    \/ \E r \in Runs : CheckDay(r)
    \/ \E r \in Runs : CheckTokens(r)

SpecQuota == InitQuota /\ [][NextQuota]_vars

(***************************************************************************)
(* Specification of the memory of one conversation over successive runs:   *)
(* each run lists the history, refreshes the summary and trims the history *)
(* it feeds to the completion call; between runs the history grows, up to  *)
(* the number of rows list_messages returns.                               *)
(***************************************************************************)
MemoryFrame ==
    UNCHANGED <<cfgVars, pc, runVars, loopVars, toolVars, streamVars, storeVars,
                attempts, quota_commits, memory_enable, cancelled, quota_runs,
                use_tools, tools_sent, ragVars, call_log>>

\* chat / chat_stream: maybe_refresh_summary, then trim_history_rows
RefreshAndTrim ==
    /\ \E outcome \in SummaryOutcomes :
         LET m == maybe_refresh_summary(memory_enable, memory_message_count,
                                        history_rows, outcome)
         IN  /\ summarized_count' = m.count
             /\ memory_message_count' = m.stored
             /\ summary_calls' = IF m.called THEN 1 ELSE 0
             /\ faults' = summary_fault(m.called, outcome)
             /\ trimmed_rows' = trim_history_rows(history_rows, m.count)
    /\ UNCHANGED history_rows
    /\ MemoryFrame

\* a run persisted a row of the conversation
AppendMessage ==
    /\ history_rows < MaxHistory
    /\ history_rows' = history_rows + 1
    /\ UNCHANGED <<memory_message_count, summarized_count, trimmed_rows, summary_calls,
                   faults>>
    /\ MemoryFrame

InitMemory ==
    /\ InitTooling({TRUE})
    /\ InitWith({"chat"}, {Healthy}, {<<"openai", "gemini">>}, {FALSE}, {MaxSteps}, {0},
                {"c1"}, QuotaOff)
    /\ InitStore(BOOLEAN, 0..MaxHistory, 0)

NextMemory ==
    \/ RefreshAndTrim
    \/ AppendMessage

SpecMemory == InitMemory /\ [][NextMemory]_vars

(***************************************************************************)
(* Specification of streaming runs whose consumer may go away.  Closing or *)
(* cancelling the generator raises GeneratorExit or CancelledError at the  *)
(* point where chat_stream is suspended; neither is an Exception, so the   *)
(* except clause is passed over and the finally clause runs.               *)
(***************************************************************************)
\* chat_stream: the consumer closes or cancels the stream during the chunk loop
Disconnect ==
    /\ mode = "stream"
    /\ pc = "stream"
    /\ cancelled' = TRUE
    /\ pc' = "record"
    /\ UNCHANGED <<cfgVars, runVars, loopVars, toolVars, streamVars, storeVars, attempts,
                   faults, quota_commits, memVars, quota_runs, use_tools, tools_sent,
                   ragVars, call_log>>

InitCancel ==
    /\ InitTooling({TRUE})
    /\ InitWith({"stream"}, {Healthy}, FallbackLists, BOOLEAN, {MaxSteps}, {0},
                {None, "c1"}, QuotaOff)
    /\ InitStore({TRUE}, {MaxHistory}, 0)

NextCancel ==
    \/ LoadConversation
    \/ ResolvePrimary
    \/ EnforceQuota
    \/ BuildContext
    \/ PersistUser
    \/ StreamResolve
    \/ StreamStep({"stream_request_failed", "network_error"}, StreamChunks)
    \/ Disconnect
    \/ PersistAssistant
    \/ CommitQuotaStream
    \/ EmitDone
    \/ StreamExcept
    \/ RecordObservability

SpecCancel == InitCancel /\ [][NextCancel]_vars

(***************************************************************************)
(* Specification of streaming runs of requests with and without tools.     *)
(***************************************************************************)
InitStream ==
    /\ InitTooling(BOOLEAN)
    /\ InitWith({"stream"}, {Healthy}, FallbackLists, BOOLEAN, {MaxSteps}, {0},
                {None, "missing"}, QuotaOff)
    /\ InitStore({FALSE}, {0}, 0)

NextStream ==
    \/ LoadConversation
    \/ ResolvePrimary
    \/ EnforceQuota
    \/ BuildContext
    \/ PersistUser
    \/ StreamResolve
    \/ StreamStep({"stream_request_failed", "network_error"}, StreamChunks)
    \/ PersistAssistant
    \/ CommitQuotaStream
    \/ EmitDone
    \/ StreamExcept
    \/ RecordObservability

SpecStream == InitStream /\ [][NextStream]_vars

(***************************************************************************)
(* Specification of document ingestions (RAGService.ingest_document), one  *)
(* after another, each on the session of its request.  A text is its       *)
(* length; its characters are not whitespace.                              *)
(***************************************************************************)
TextLengths == {0, 150, MinChunkSize, 350, MaxTextLength}
ChunkSizes == {MinChunkSize, 300}
ChunkOverlaps == {0, 120}

\* a variant of the loop that starts the next window one position after the end
\* of the last
RECURSIVE split_text_gapped(_, _, _, _)
split_text_gapped(length, start, chunk_size, chunk_overlap) ==
    IF start >= length THEN <<>>
    ELSE LET end == Min(start + chunk_size, length)
         IN  IF end >= length THEN <<[start |-> start, end |-> end]>>
             ELSE <<[start |-> start, end |-> end]>>
                  \o split_text_gapped(length, end + 1, chunk_size, chunk_overlap)

\* RAGService._split_text: the windows text[start:end] of the text, from position
\* start on; each gives a chunk
RECURSIVE split_text(_, _, _, _)
split_text(length, start, chunk_size, chunk_overlap) ==
    IF start >= length THEN <<>>
    ELSE LET end == Min(start + chunk_size, length)
         IN  IF end >= length THEN <<[start |-> start, end |-> end]>>
             ELSE <<[start |-> start, end |-> end]>>
                  \o split_text(length, end - chunk_overlap, chunk_size, chunk_overlap)

\* the clamps of ingest_document
clamped(chunk_size, chunk_overlap) ==
    LET size == Max(MinChunkSize, Min(chunk_size, MaxChunkSize))
    IN  [size |-> size, overlap |-> Max(0, Min(chunk_overlap, size - 1))]

\* the clamps of ingest_document, then the split
chunks_of(length, chunk_size, chunk_overlap) ==
    LET c == clamped(chunk_size, chunk_overlap)
    IN  split_text(length, 0, c.size, c.overlap)

RagFrame ==
    UNCHANGED <<cfgVars, pc, runVars, loopVars, toolVars, streamVars, storeVars,
                attempts, faults, quota_commits, memVars, sideVars, use_tools,
                tools_sent, call_log>>

\* a variant that commits the document row where the code flushes it
StartIngestion_committing(length, chunk_size, chunk_overlap) ==
    /\ rag_pc = "idle"
    /\ Len(rag_results) < MaxDocs
    /\ length > 0
    /\ rag_chunks' = chunks_of(length, chunk_size, chunk_overlap)
    /\ rag_idx' = 0
    /\ rag_session' = NoRows
    /\ rag_store' = Append(rag_store, [chunk_count |-> Len(rag_chunks'), chunks |-> 0])
    /\ rag_pc' = "embed"
    /\ UNCHANGED rag_results
    /\ RagFrame

\* ingest_document up to the loop: the split, the document row, db.flush()
StartIngestion(length, chunk_size, chunk_overlap) ==
    /\ rag_pc = "idle"
    /\ Len(rag_results) < MaxDocs
    /\ IF length = 0
       THEN /\ rag_results' = Append(rag_results, "empty")
            /\ rag_pc' = "closing"
            /\ UNCHANGED <<rag_chunks, rag_idx, rag_session>>
       ELSE \/ /\ rag_chunks' = chunks_of(length, chunk_size, chunk_overlap)
               /\ rag_idx' = 0
               /\ rag_session' = [docs |-> 1, chunks |-> 0]
               /\ rag_pc' = "embed"
               /\ UNCHANGED rag_results
            \/ /\ rag_results' = Append(rag_results, "db_error")
               /\ rag_pc' = "closing"
               /\ UNCHANGED <<rag_chunks, rag_idx, rag_session>>
    /\ UNCHANGED rag_store
    /\ RagFrame

\* one turn of the loop: the embedding call, then the chunk row is added
EmbedChunk ==
    /\ rag_pc = "embed"
    /\ rag_idx < Len(rag_chunks)
    /\ \/ /\ rag_session' = [rag_session EXCEPT !.chunks = @ + 1]
          /\ rag_idx' = rag_idx + 1
          /\ UNCHANGED <<rag_pc, rag_results>>
       \/ \E e \in {"request_failed", "empty_embedding"} :
            /\ rag_results' = Append(rag_results, e)
            /\ rag_pc' = "closing"
            /\ UNCHANGED <<rag_session, rag_idx>>
    /\ UNCHANGED <<rag_chunks, rag_store>>
    /\ RagFrame

\* db.commit() after the loop, and the return
CommitIngestion ==
    /\ rag_pc = "embed"
    /\ rag_idx = Len(rag_chunks)
    /\ \/ /\ rag_store' =
                 Append(rag_store,
                        [chunk_count |-> Len(rag_chunks), chunks |-> rag_session.chunks])
          /\ rag_session' = NoRows
          /\ rag_results' = Append(rag_results, "returned")
       \/ /\ rag_results' = Append(rag_results, "db_error")
          /\ UNCHANGED <<rag_store, rag_session>>
    /\ rag_pc' = "closing"
    /\ UNCHANGED <<rag_chunks, rag_idx>>
    /\ RagFrame

\* the request ends and its session is released: what it holds uncommitted is
\* rolled back
CloseSession ==
    /\ rag_pc = "closing"
    /\ rag_session' = NoRows
    /\ rag_pc' = "idle"
    /\ UNCHANGED <<rag_chunks, rag_idx, rag_store, rag_results>>
    /\ RagFrame

InitRag ==
    /\ InitTooling({TRUE})
    /\ InitWith({"chat"}, {Healthy}, {<<"openai", "gemini">>}, {FALSE}, {MaxSteps}, {0},
                {None}, QuotaOff)
    /\ InitStore({FALSE}, {0}, 0)

NextRag ==
    \/ \E length \in TextLengths, size \in ChunkSizes, overlap \in ChunkOverlaps :
           StartIngestion(length, size, overlap)
    \* a size below and an overlap above what the clamps allow
    \/ \E length \in {MinChunkSize + 3}, size \in {MinChunkSize - 100},
            overlap \in {MaxChunkSize} :
           StartIngestion(length, size, overlap)
    \/ EmbedChunk
    \/ CommitIngestion
    \/ CloseSession

SpecRag == InitRag /\ [][NextRag]_vars

(***************************************************************************)
(* Specification of concurrent calls of commit_token_usage on one bucket.  *)
(* Each await is a step; redis executes INCRBY atomically and returns the  *)
(* new value.  quota_commits holds the writes in the order redis executed  *)
(* them.                                                                   *)
(***************************************************************************)
\* usage of a run: none, a total, prompt and completion tokens without a total
Usage2 == [k \in {"prompt_tokens", "completion_tokens"} |-> 1]

CommitUsages == {EmptyUsage, Usage1, Usage2}

CommitRun(usage) ==
    [pc |-> "start", usage |-> usage, new_value |-> 0, set_expiry |-> FALSE]

CommitFrame ==
    UNCHANGED <<cfgVars, pc, runVars, loopVars, toolVars, streamVars, db_messages,
                conv_provider, metrics, attempts, faults, memVars, cancelled, use_tools,
                tools_sent, ragVars, call_log>>

\* a variant of the test after the write that always sets the expiry
sets_expiry_always(new_value, total_tokens) == TRUE

\* if new_value <= total_tokens: await redis.expire(day_tok_key, 172800)
sets_expiry(new_value, total_tokens) == new_value <= total_tokens

\* the early returns: no counter store, nothing to commit
CommitStart(r) ==
    /\ quota_runs[r].pc = "start"
    /\ \E redis \in {"up", "down"} :
         quota_runs' =
             [quota_runs EXCEPT ![r].pc =
                 IF ~quota.enabled \/ redis = "down" THEN "skipped"
                 ELSE IF total_tokens_of(quota_runs[r].usage) <= 0 THEN "skipped"
                 ELSE "incrby"]
    /\ UNCHANGED <<quota, quota_commits>>
    /\ CommitFrame

\* new_value = await redis.incrby(day_tok_key, total_tokens), or it raises
RedisIncrBy(r) ==
    /\ quota_runs[r].pc = "incrby"
    /\ LET total_tokens == total_tokens_of(quota_runs[r].usage)
           new_value == quota.day_tok[Bucket] + total_tokens
       IN  \/ /\ quota' = [quota EXCEPT !.day_tok[Bucket] = new_value]
              /\ quota_commits' =
                     Append(quota_commits,
                            [provider |-> Bucket, tokens |-> total_tokens, run |-> r,
                             new_value |-> new_value])
              /\ quota_runs' =
                     [quota_runs EXCEPT ![r].new_value = new_value,
                                        ![r].pc = IF sets_expiry(new_value, total_tokens)
                                                  THEN "expire" ELSE "committed"]
           \/ /\ quota_runs' = [quota_runs EXCEPT ![r].pc = "failed"]
              /\ UNCHANGED <<quota, quota_commits>>
    /\ CommitFrame

\* await redis.expire(day_tok_key, 172800)
RedisExpire(r) ==
    /\ quota_runs[r].pc = "expire"
    /\ quota_runs' = [quota_runs EXCEPT ![r].pc = "committed", ![r].set_expiry = TRUE]
    /\ UNCHANGED <<quota, quota_commits>>
    /\ CommitFrame

InitCommit ==
    /\ InitTooling({TRUE})
    /\ InitWith({"chat"}, {Healthy}, {<<"openai", "gemini">>}, {FALSE}, {MaxSteps}, {0},
                {None}, QuotaStates \ QuotaOff)
    /\ InitStoreWith({FALSE}, {0}, [Runs -> {CommitRun(u) : u \in CommitUsages}])

NextCommit ==
    \/ \E r \in Runs : CommitStart(r)
    \/ \E r \in Runs : RedisIncrBy(r)
    \/ \E r \in Runs : RedisExpire(r)

SpecCommit == InitCommit /\ [][NextCommit]_vars

(***************************************************************************)
(* Specification of enforce_before_request on every state of the three     *)
(* counters and every setting of the three ceilings.                       *)
(***************************************************************************)
GateStates ==
    {[enabled |-> TRUE,
      minute |-> [ZeroCounters EXCEPT ![default_llm_provider] = m],
      day_req |-> [ZeroCounters EXCEPT ![default_llm_provider] = d],
      day_tok |-> [ZeroCounters EXCEPT ![default_llm_provider] = t],
      limits |-> [minute |-> lm, day |-> ld, token |-> lt]] :
        m \in 0..MaxGate, d \in 0..MaxGate, t \in 0..MaxGate,
        lm \in 0..MaxGate, ld \in 0..MaxGate, lt \in 0..MaxGate}

InitGate ==
    /\ InitTooling({TRUE})
    /\ InitWith({"chat"}, {Healthy}, {<<"openai", "gemini">>}, {FALSE}, {MaxSteps}, {0},
                {None}, GateStates)
    /\ InitStore({FALSE}, {0}, 0)

NextGate ==
    \/ LoadConversation
    \/ ResolvePrimary
    \/ EnforceQuota
    \/ RecordObservability

SpecGate == InitGate /\ [][NextGate]_vars

(***************************************************************************)
(* Properties.  The history variable attempts has one entry per candidate  *)
(* the loop visited; CandidateChain is the chain the configuration gives   *)
(* the run (the request names no provider, so the primary is the default). *)
(***************************************************************************)
Last(s) == s[Len(s)]

CandidateChain == provider_candidates(config, default_llm_provider)

Resolves(p) == resolve_provider(config, p, TRUE).ok

\* the run failed in no stage other than the candidates: it succeeded, or raised
\* the resolution error of the primary, or raised what its last attempt raised
NoStageFailure ==
    \/ error = None
    \/ attempts = <<>> /\ error \in ResolveErrors
    \/ attempts # <<>> /\ Last(attempts).outcome = error

\* candidate i failed with a fallback-eligible error, at resolution or in its calls
FailedTransiently(i) ==
    \/ ~Resolves(CandidateChain[i])
    \/ /\ i <= Len(attempts)
       /\ attempts[i].outcome \notin {"ok", "running"}
       /\ is_fallback_candidate_error(attempts[i].outcome)

\* candidate k is one that succeeds: its binding resolves and no call of it failed
Succeeds(k) ==
    /\ Resolves(CandidateChain[k])
    /\ k <= Len(attempts) => attempts[k].outcome = "ok"

\* C1: in a single-shot run whose candidates c0..c(k-1) each fail with a
\* fallback-eligible error (at binding resolution or in the tool loop) and whose
\* candidate ck succeeds, the run succeeds with ck as answering provider, the
\* trace is exactly [c0..ck], and no candidate after ck is resolved or called.
C1_FirstHealthyCandidateAnswers ==
    (mode = "chat" /\ pc = "done" /\ NoStageFailure) =>
        \A k \in 1..Len(CandidateChain) :
            ((\A i \in 1..(k - 1) : FailedTransiently(i)) /\ Succeeds(k)) =>
                /\ result.status = "returned"
                /\ result.provider = CandidateChain[k]
                /\ fallback_chain = SubSeq(CandidateChain, 1, k)
                /\ Len(attempts) = k

\* C1, where the primary's binding resolves: the same statement holds of the runs
\* that enter the candidate loop
C1_InsideTheLoop ==
    Resolves(default_llm_provider) => C1_FirstHealthyCandidateAnswers

\* C2: a single-shot run whose primary has no credential and whose next
\* candidate is healthy succeeds, with fallback.from the primary, fallback.to that
\* candidate and the trace [primary, secondary].
C2_MisconfiguredPrimaryFallsBack ==
    (/\ mode = "chat" /\ pc = "done"
     /\ config.status[default_llm_provider] = "no_key"
     /\ Len(CandidateChain) >= 2
     /\ Resolves(CandidateChain[2])
     /\ error \in {None, "api_key_missing"}) =>
        /\ result.status = "returned"
        /\ result.provider = CandidateChain[2]
        /\ result.fallback_from = CandidateChain[1]
        /\ result.fallback_to = CandidateChain[2]
        /\ result.fallback_chain = <<CandidateChain[1], CandidateChain[2]>>

IsMeta(e) == e.event = "meta"
IsDelta(e) == e.event = "delta"
IsTerminal(e) == e.event \in {"done", "error"}
IsResolved(a) == a.resolved
IsPartialRow(r) == r.tag = "partial"

EventRank(e) == IF IsMeta(e) THEN 0 ELSE IF IsDelta(e) THEN 1 ELSE 2

ProvidersOf(s) == [i \in 1..Len(s) |-> s[i].provider]

RunEnded == pc \in {"record", "done"}

\* C3: the events of a streaming run are meta events, then delta events, then
\* one done or error event: no meta after a delta, one meta per candidate whose
\* binding resolved and none for any other, a terminal event exactly when the run
\* has ended, and nothing after it.
C3_StreamGrammar ==
    mode = "stream" =>
        /\ \A i, j \in 1..Len(events) :
               i < j => EventRank(events[i]) <= EventRank(events[j])
        /\ \A i \in 1..Len(events) : IsTerminal(events[i]) => i = Len(events)
        /\ ProvidersOf(SelectSeq(events, IsMeta)) =
               ProvidersOf(SelectSeq(attempts, IsResolved))
        /\ RunEnded <=> (events # <<>> /\ IsTerminal(Last(events)))

\* a run that fell back to a second candidate, streamed text and completed
C3_Witness ==
    /\ mode = "stream" /\ pc = "done"
    /\ Len(SelectSeq(events, IsMeta)) >= 2
    /\ Len(SelectSeq(events, IsDelta)) >= 1
    /\ Last(events).event = "done"

\* the run completed: chat returned a result, chat_stream emitted done
Completed ==
    IF mode = "chat" THEN result.status = "returned"
    ELSE events # <<>> /\ Last(events).event = "done"

\* C4: every run, in both modes, produces exactly one observability record, as
\* its last step, with success true iff the run completed; never zero, never two.
C4_ExactlyOneRecord ==
    /\ pc # "done" => metrics = <<>>
    /\ pc = "done" => Len(metrics) = 1 /\ metrics[1].success = Completed

\* C4, amended: every run hands the sink one record, as its last step, with
\* success true iff the run completed; the store holds that one record, or none
\* when the sink failed (the failure is swallowed); never two.
C4_OneRecordingAttempt ==
    /\ pc # "done" => metrics = <<>> /\ "sink" \notin faults
    /\ pc = "done" => Len(metrics) = (IF "sink" \in faults THEN 0 ELSE 1)
    /\ \A i \in 1..Len(metrics) :
           /\ metrics[i].success = Completed
           /\ metrics[i].is_stream = (mode = "stream")

\* a completed run whose record the sink lost
C4_Witness == pc = "done" /\ Completed /\ "sink" \in faults /\ metrics = <<>>

\* candidate i's stream failed after it had emitted a delta / before any delta
FailedAfterDelta(i) ==
    attempts[i].deltas > 0 /\ attempts[i].outcome \notin {"ok", "running"}

FailedBeforeDelta(i) ==
    /\ attempts[i].resolved /\ attempts[i].deltas = 0
    /\ attempts[i].outcome \notin {"ok", "running"}

PartialRows == SelectSeq(db_messages, IsPartialRow)

\* C5: in a streaming run, once a candidate's stream fails after a delta, no
\* further candidate is attempted, the text of the deltas emitted so far is
\* persisted as one assistant message tagged partial, and the last event is error.
C5_PartialAlwaysPersisted ==
    mode = "stream" =>
        \A i \in 1..Len(attempts) :
            FailedAfterDelta(i) =>
                /\ i = Len(attempts)
                /\ pc \in {"s_except", "record", "done"}
                /\ RunEnded =>
                       /\ Last(events).event = "error"
                       /\ Len(PartialRows) = 1
                       /\ PartialRows[1].role = "assistant"
                       /\ PartialRows[1].content \in
                              {join(assistant_parts), strip(join(assistant_parts))}

\* C5, amended: in a streaming run, once a candidate's stream fails after a
\* delta, no further candidate is attempted and the last event is error; the
\* trimmed text of the deltas, when it is not empty and the store takes the write,
\* is persisted as one assistant message tagged partial, and otherwise no
\* assistant message is persisted.
C5_PartialPersistedWhenText ==
    mode = "stream" =>
        \A i \in 1..Len(attempts) :
            FailedAfterDelta(i) =>
                /\ i = Len(attempts)
                /\ pc \in {"s_except", "record", "done"}
                /\ RunEnded =>
                       /\ Last(events).event = "error"
                       /\ ProvidersOf(SelectSeq(events, IsDelta))
                              = [k \in 1..Len(assistant_parts) |-> None]
                       /\ \A k \in 1..Len(db_messages) :
                              db_messages[k].role = "assistant" =>
                                  IsPartialRow(db_messages[k])
                       /\ PartialRows =
                              IF strip(join(assistant_parts)) # <<>>
                                 /\ "partial_persist" \notin faults
                              THEN <<Row("assistant", strip(join(assistant_parts)),
                                         NoId, attempts[i].provider, "partial")>>
                              ELSE <<>>

\* a first candidate that failed after its deltas, with candidates left, and
\* whose trimmed text was persisted
C5_Witness ==
    /\ mode = "stream" /\ pc = "done"
    /\ Len(attempts) = 1 /\ FailedAfterDelta(1) /\ Len(candidates) > 1
    /\ Len(PartialRows) = 1
    /\ PartialRows[1].content # join(assistant_parts)

\* C6: in a streaming run, a candidate whose stream fails before it emitted any
\* delta (content-less chunks included) does not end the run while candidates
\* remain: the run advances to the next candidate and emits no error event.
C6_SilentAdvanceBeforeDelta ==
    mode = "stream" =>
        \A i \in 1..Len(attempts) :
            (FailedBeforeDelta(i) /\ i < Len(candidates)) =>
                /\ Len(attempts) > i \/ pc = "s_fallback"
                /\ \A k \in 1..Len(events) : events[k].event # "error"

\* C6, for the streams that fail before their first chunk: the statement holds
C6_BeforeFirstChunk ==
    mode = "stream" =>
        \A i \in 1..Len(attempts) :
            (FailedBeforeDelta(i) /\ i < Len(candidates) /\ attempts[i].calls = 0) =>
                /\ Len(attempts) > i \/ pc = "s_fallback"

\* C10: at the end of every run that consumed tokens, successful or failed, the
\* accumulated token usage has been committed to the quota gate once, before the
\* observability record.
C10_UsageCommittedAtEnd ==
    (RunEnded /\ total_tokens_of(usage_total) > 0) =>
        /\ Len(quota_commits) = 1
        /\ quota_commits[1].tokens = total_tokens_of(usage_total)

\* C10, for the runs that completed: the statement holds
C10_CommittedOnSuccess ==
    (RunEnded /\ Completed) =>
        /\ Len(quota_commits) = 1
        /\ quota_commits[1].tokens = total_tokens_of(usage_total)

IsToolMessage(m) == m.role = "tool"

RECURSIVE CountCalls(_)
CountCalls(msgs) ==
    IF msgs = <<>> THEN 0 ELSE Len(Head(msgs).tool_calls) + CountCalls(Tail(msgs))

CountToolMessages(msgs) == Len(SelectSeq(msgs, IsToolMessage))

\* the tool message answers the call with the call's id
MatchedById(call, msg) == msg.tool_call_id = call.id

\* ... or, when the provider gave the call no id, carries a generated one
MatchedOrGenerated(call, msg) ==
    IF call.id # NoId THEN msg.tool_call_id = call.id
    ELSE msg.tool_call_id >= GeneratedCallId(0)

\* the assistant message at position p is followed by one tool message per call,
\* in call order, and by no other tool message
AnsweredAt(msgs, p, Matched(_, _)) ==
    LET calls == msgs[p].tool_calls
    IN  /\ p + Len(calls) <= Len(msgs)
        /\ \A i \in 1..Len(calls) :
               IsToolMessage(msgs[p + i]) /\ Matched(calls[i], msgs[p + i])
        /\ p + Len(calls) < Len(msgs) => ~IsToolMessage(msgs[p + Len(calls) + 1])

ContextAnswered(msgs, Matched(_, _)) ==
    /\ \A p \in 1..Len(msgs) :
           msgs[p].role = "assistant" => AnsweredAt(msgs, p, Matched)
    /\ CountToolMessages(msgs) = CountCalls(msgs)

StepLimitHit ==
    /\ mode = "chat" /\ tool_call_pending /\ pending_calls = <<>>
    /\ steps = Max(1, max_tool_steps)

\* C8: when the provider returns tool calls on every one of the maxToolSteps
\* iterations (and they are run), the loop ends without raising, the final text
\* is the step-limit message, the last generated record is tagged
\* max_tool_steps_exceeded, and the run goes on to persist and to succeed.
C8_StepLimitEndsQuietly ==
    StepLimitHit =>
        /\ Last(attempts).outcome = "ok"
        /\ Last(attempts).calls = Max(1, max_tool_steps)
        /\ pc \in {"persist", "commit", "record", "done"}
        /\ assistant_text = StepLimitText
        /\ Last(generated_records).reason = "max_tool_steps_exceeded"
        /\ Last(generated_records).content = StepLimitText
        /\ error \notin ToolErrors \cup CallErrors
        /\ (pc \in {"commit", "record", "done"} /\ error # "db_error") =>
               /\ Last(db_messages).tag = "max_tool_steps_exceeded"
               /\ Len(db_messages) = 1 + Len(generated_records)
        /\ (pc = "done" /\ error = None) =>
               /\ result.status = "returned"
               /\ result.assistant_message = StepLimitText

\* a run that hit the step limit and returned
C8_Witness == StepLimitHit /\ pc = "done" /\ result.status = "returned"

\* C9: every candidate's tool loop makes at least one completion call, at most
\* maxToolSteps, and never more than 8, whatever step limit the request or the
\* configuration supplies.
C9_AtMostEightCalls ==
    \A i \in 1..Len(attempts) :
        /\ attempts[i].calls <= Max(1, max_tool_steps)
        /\ attempts[i].calls <= MaxToolStepsCeiling
        /\ attempts[i].outcome = "ok" => attempts[i].calls >= 1

\* C9, for the step limits the request supplies: the statement holds
C9_RequestLimitBounded ==
    request.max_tool_steps # 0 => C9_AtMostEightCalls

(***************************************************************************)
(* The quota gate and the run.                                             *)
(***************************************************************************)
QuotaRejections == {"rate_limited_minute", "rate_limited_day", "quota_exhausted"}

\* C11: a run the quota gate rejected (minute ceiling, day ceiling or token
\* quota) tried no candidate, made no completion and no summarization call,
\* persisted no message, and handed the caller that error: the single-shot run
\* raised it, the streaming run yielded one error event carrying it and nothing
\* else.
C11_QuotaRejectionAborts ==
    error \in QuotaRejections =>
        /\ attempts = <<>>
        /\ summary_calls = 0
        /\ db_messages = <<>>
        /\ mode = "chat" => result.status = "raised" /\ result.error = error
        /\ mode = "stream" =>
               events = IF RunEnded THEN <<Event("error", None, <<>>, error)>> ELSE <<>>

\* a rejected run on a conversation whose history is long enough to be summarized
C11_Witness ==
    /\ pc = "done"
    /\ error \in QuotaRejections
    /\ conversation = "c1"
    /\ maybe_refresh_summary(memory_enable, memory_message_count, history_rows,
                             "summary").called

\* C12: an outage of the counter store never fails a run, whether it shows when
\* the store is acquired or during a counter operation: no run ends with the
\* error a counter operation raised.
C12_CounterStoreOutageNeverFails == error # "redis_error"

Incremented == {r \in Runs : quota_runs[r].pc # "incr_minute"}

PassedMinuteCheck ==
    {r \in Incremented : quota_runs[r].pc \notin {"check_minute", "rate_limited_minute"}}

\* C13: of any number of concurrent runs on one bucket, at most the per-minute
\* ceiling pass the minute check, and no increment is lost: the values INCR
\* returned to the runs are distinct and are the last ones the counter took.
C13_AtMostLimitPass ==
    /\ Cardinality(PassedMinuteCheck) <= Max(1, MinuteLimit)
    /\ {quota_runs[r].minute_count : r \in Incremented} =
           (quota.minute[Bucket] - Cardinality(Incremented) + 1)..quota.minute[Bucket]

\* every run has gone through the minute check, and the ceiling was met
C13_Witness ==
    /\ Incremented = Runs
    /\ Cardinality(PassedMinuteCheck) = Max(1, MinuteLimit)
    /\ \E r \in Runs : quota_runs[r].pc = "rate_limited_minute"
    /\ MaxRuns > Max(1, MinuteLimit)

(***************************************************************************)
(* Conversation memory.                                                    *)
(***************************************************************************)
\* C14: over any sequence of refreshes of a conversation whose history grows,
\* the summarized count the conversation row holds never decreases, and the
\* history a run feeds to the completion call holds no row whose index is below
\* the summarized count of that run.
C14_SummarizedCountMonotone ==
    [][/\ memory_message_count' >= memory_message_count
       /\ \A i \in trimmed_rows' : i >= summarized_count']_vars

\* a refresh that summarized, advanced the count and trimmed the history to the
\* rows kept
C14_Witness ==
    /\ summary_calls = 1
    /\ summarized_count > 0
    /\ memory_message_count = summarized_count
    /\ trimmed_rows = summarized_count..(history_rows - 1)
    /\ trimmed_rows # {}

(***************************************************************************)
(* Cancellation.                                                           *)
(***************************************************************************)
\* C15: when the consumer went away after a delta and before the terminal event,
\* the run consumes no further chunk and the text accumulated so far is
\* persisted as an assistant row tagged partial.
C15_PartialPersistedOnDisconnect ==
    cancelled /\ partial_text(assistant_parts) # <<>> =>
        /\ pc # "stream"
        /\ \E i \in 1..Len(db_messages) :
               /\ IsPartialRow(db_messages[i])
               /\ db_messages[i].content = partial_text(assistant_parts)

(***************************************************************************)
(* The observability sink and the outcome of the run.                      *)
(***************************************************************************)
\* C16: the recording step leaves the outcome of the run as it found it, whether
\* the sink stored the record or failed: the result returned or the error
\* raised, the events yielded and the rows persisted are unchanged.
C16_SinkFailureKeepsOutcome ==
    [][pc = "record" =>
           /\ result' = result
           /\ error' = error
           /\ events' = events
           /\ db_messages' = db_messages
           /\ pc' = "done"]_vars

\* a run whose sink failed: a completed single-shot run, or a failed streaming run
C16_Witness ==
    /\ pc = "done"
    /\ "sink" \in faults
    /\ \/ mode = "chat" /\ result.status = "returned"
       \/ mode = "stream" /\ events # <<>> /\ Last(events).event = "error"

(***************************************************************************)
(* What is committed, and when.                                            *)
(***************************************************************************)
\* C17: in a streaming run the user row and the provider of the conversation
\* are committed before the first stream is opened: once a candidate has been
\* visited the first row is the user's, and while a stream is open the
\* conversation carries the primary provider.
C17_UserCommittedBeforeStream ==
    mode = "stream" /\ attempts # <<>> =>
        /\ db_messages # <<>>
        /\ db_messages[1] = Row("user", UserText, NoId, primary_provider, "stream")
        /\ pc = "stream" => conv_provider = primary_provider

\* the first stream is open and has delivered nothing yet
C17_Witness ==
    /\ mode = "stream"
    /\ pc = "stream"
    /\ Len(attempts) = 1
    /\ chunks = 0
    /\ Len(db_messages) = 1

\* the messages are one assistant message with tool calls followed by one tool
\* message per call, iteration after iteration, closed by an assistant message
\* without tool calls (or by nothing, when the step limit ended the loop)
RECURSIVE InIterations(_)
InIterations(msgs) ==
    IF msgs = <<>> THEN TRUE
    ELSE LET k == Len(Head(msgs).tool_calls)
         IN  /\ Head(msgs).role = "assistant"
             /\ Len(msgs) >= 1 + k
             /\ \A j \in 2..(1 + k) : msgs[j].role = "tool"
             /\ IF k = 0 THEN Len(msgs) = 1
                ELSE InIterations(SubSeq(msgs, 2 + k, Len(msgs)))

SameMessage(row, m) ==
    row.role = m.role /\ row.content = m.content /\ row.tool_call_id = m.tool_call_id

\* C18: a single-shot run has persisted nothing until its fallback loop has
\* succeeded, so no row is written before or between provider calls; the rows
\* it then writes, all at once, are the user row, then the messages of the
\* answering candidate's tool loop in the order they were exchanged with the
\* provider (each assistant message followed by its tool results), then the
\* final assistant row.
C18_PersistedInOrder ==
    mode = "chat" /\ db_messages # <<>> =>
        /\ pc \in {"commit", "record", "done"}
        /\ attempts # <<>> /\ Last(attempts).outcome = "ok"
        /\ SameMessage(db_messages[1], UserMessage)
        /\ working_messages[1] = UserMessage
        /\ \A i \in 2..Len(working_messages) :
               SameMessage(db_messages[i], working_messages[i])
        /\ InIterations(Tail(working_messages))
        /\ Len(db_messages) = Len(working_messages) + (IF StepLimitHit THEN 1 ELSE 0)
        /\ Last(db_messages).role = "assistant"
        /\ Last(db_messages).content = assistant_text
        /\ ~StepLimitHit => Last(working_messages).tool_calls = <<>>

\* a returned run with an iteration of two tool calls before the final answer
C18_Witness ==
    /\ pc = "done"
    /\ result.status = "returned"
    /\ steps >= 1
    /\ ~StepLimitHit
    /\ Len(db_messages) >= 5

(***************************************************************************)
(* The fallback summary.                                                   *)
(***************************************************************************)
\* what a completed run hands its caller: the result of chat, the done event of
\* chat_stream
Summary ==
    IF mode = "chat"
    THEN [from |-> result.fallback_from, to |-> result.fallback_to,
          provider |-> result.provider]
    ELSE [from |-> Last(events).fallback_from,
          to |-> IF Last(events).fallback_from # None THEN Last(events).provider
                 ELSE None,
          provider |-> Last(events).provider]

\* C19: a completed run carries a fallback summary iff the candidate that
\* answered is not the first of the chain; the summary then has from = the
\* primary, to = the answering provider, and from # to.  A run the primary
\* answered has a trace of length 1, no summary, and, once its record is stored,
\* one observability record, with success true.
C19_FallbackSummary ==
    Completed =>
        /\ Summary.provider = Last(attempts).provider
        /\ Summary.from # None <=> Len(attempts) > 1
        /\ Summary.from # None =>
               /\ Summary.from = attempts[1].provider
               /\ Summary.from = primary_provider
               /\ Summary.to = Last(attempts).provider
               /\ Summary.from # Summary.to
        /\ Len(attempts) = 1 =>
               /\ Len(fallback_chain) = 1
               /\ pc = "done" /\ "sink" \notin faults =>
                      /\ Len(metrics) = 1
                      /\ metrics[1].success
                      /\ metrics[1].fallback_from = None

\* a completed run that the second candidate of the chain answered
C19_Witness ==
    /\ pc = "done"
    /\ Completed
    /\ Len(attempts) = 2
    /\ Summary.from = default_llm_provider
    /\ Summary.to = CandidateChain[2]

(***************************************************************************)
(* Errors of tool executions.                                              *)
(***************************************************************************)
\* the step executed a tool call and the execution failed
ToolFailedStep == tool_runs' # tool_runs /\ ~Last(tool_runs').ok

\* C20: a tool call whose local executor raises, or whose remote HTTP call
\* fails, does not abort the run: the step raises nothing and appends a tool
\* result with ok = false, carried to the provider as a tool-role message under
\* the id of the result, and the loop goes on: to the next call of the
\* iteration, then to the next completion call (or, when the iterations are
\* used up, to the step-limit reply).
C20_ToolErrorDoesNotAbort ==
    [][pc = "tools" =>
           /\ Head(pending_calls).name = "boom" => ToolFailedStep
           /\ ToolFailedStep =>
                  /\ Head(pending_calls).name \in {"boom", "flaky"}
                  /\ error' = None /\ result'.status # "raised"
                  /\ Len(attempts') = Len(attempts)
                  /\ Last(attempts').outcome \in {"running", "ok"}
                  /\ Last(working_messages') =
                         Message("tool", <<"error">>, Last(tool_runs').tool_call_id, <<>>)
                  /\ Len(working_messages') = Len(working_messages) + 1
                  /\ pc' = IF pending_calls' # <<>> THEN "tools"
                           ELSE IF steps' < Max(1, max_tool_steps) THEN "complete"
                           ELSE "persist"]_vars

\* a returned run that went through a failed local and a failed remote tool
\* execution and made a completion call after them
C20_Witness ==
    /\ pc = "done"
    /\ result.status = "returned"
    /\ ~StepLimitHit
    /\ \E i, j \in 1..Len(tool_runs) :
           /\ tool_runs[i].tool_name = "boom" /\ ~tool_runs[i].ok
           /\ tool_runs[j].tool_name = "flaky" /\ ~tool_runs[j].ok

(***************************************************************************)
(* Tools in streaming mode.                                                *)
(***************************************************************************)
NoToolUse ==
    /\ ~tools_sent
    /\ tool_runs = <<>>
    /\ generated_records = <<>>
    /\ pending_calls = <<>>

\* C21: a streaming run sends the provider no tool definitions and executes no
\* tool, and when its request asked for tools the first event it emits carries
\* the disabled-tools warning.
C21_FirstEventWarns ==
    mode = "stream" =>
        /\ NoToolUse
        /\ use_tools /\ events # <<>> => events[1].note = "tools_disabled"

\* C21, amended: a streaming run sends no tool definitions and executes no tool;
\* when its request asked for tools, the meta event of the primary candidate
\* carries the disabled-tools warning and is the first event of every run that
\* emits a meta event; a run that fails before the candidate loop emits its
\* error event alone.  Without tools requested no event carries the warning.
C21_FirstMetaWarns ==
    mode = "stream" =>
        /\ NoToolUse
        /\ \A i \in 1..Len(events) :
               /\ IsMeta(events[i]) /\ i > 1 => events[i].note = "switched"
               /\ IsMeta(events[i]) /\ i = 1 =>
                      events[i].note = IF use_tools THEN "tools_disabled" ELSE ""
               /\ ~IsMeta(events[i]) => events[i].note # "tools_disabled"
        /\ (\E i \in 1..Len(events) : IsMeta(events[i])) => IsMeta(events[1])
        /\ attempts # <<>> /\ Last(attempts).resolved => IsMeta(events[1])

\* a completed run of a request that asked for tools
C21_Witness ==
    /\ mode = "stream"
    /\ use_tools
    /\ pc = "done"
    /\ Completed
    /\ events[1].note = "tools_disabled"

(***************************************************************************)
(* Ingestion.                                                              *)
(***************************************************************************)
Returned(results) == Len(SelectSeq(results, LAMBDA r : r = "returned"))

\* C22: an ingestion in which an embedding call fails raises and commits
\* nothing: the committed documents are those of the ingestions that returned,
\* and each has all the chunk rows its chunk_count announces.
C22_NoPartialDocument ==
    /\ Len(rag_store) = Returned(rag_results)
    /\ \A d \in 1..Len(rag_store) :
           rag_store[d].chunks = rag_store[d].chunk_count /\ rag_store[d].chunks >= 1

\* an ingestion whose embedding call failed after a chunk had been embedded,
\* following one that was committed with several chunks
C22_Witness ==
    /\ rag_pc = "closing"
    /\ Len(rag_results) = 2
    /\ rag_results[1] = "returned"
    /\ rag_results[2] \in {"request_failed", "empty_embedding"}
    /\ rag_session.chunks >= 1
    /\ rag_store[1].chunk_count >= 3

(***************************************************************************)
(* The end of the candidate loop.                                          *)
(***************************************************************************)
HasFailed(a) == a.outcome \notin {"ok", "running"}

\* the run raised e out of the candidate loop, to the caller of chat
RaisedFromLoop(e) ==
    /\ pc \in {"record", "done"}
    /\ error = e
    /\ result.status = "raised"
    /\ result.error = e

\* C23: in the candidate loop of a single-shot run a failure that is not
\* fallback-eligible is raised at once, so that the failed candidate is the last
\* one resolved or called; and when every candidate of the chain has failed with
\* a fallback-eligible error the run raises the error of the last candidate.
C23_LoopEnd ==
    mode = "chat" =>
        /\ \A i \in 1..Len(attempts) :
               (HasFailed(attempts[i]) /\ ~is_fallback_candidate_error(attempts[i].outcome)) =>
                   /\ i = Len(attempts)
                   /\ Len(rcf_fallback_chain) = i
                   /\ RaisedFromLoop(attempts[i].outcome)
        /\ (/\ attempts # <<>>
            /\ Len(attempts) = Len(candidates)
            /\ \A i \in 1..Len(attempts) :
                   HasFailed(attempts[i]) /\ is_fallback_candidate_error(attempts[i].outcome)) =>
               RaisedFromLoop(Last(attempts).outcome)

\* a run that raised a failure that is not fallback-eligible while candidates of
\* its chain were left
C23_Witness ==
    /\ mode = "chat"
    /\ pc = "done"
    /\ attempts # <<>>
    /\ HasFailed(Last(attempts))
    /\ ~is_fallback_candidate_error(Last(attempts).outcome)
    /\ Len(attempts) < Len(candidates)

\* a run whose three candidates each failed with a fallback-eligible error, the
\* last with an error other than the first
C23_AllFailed ==
    /\ mode = "chat"
    /\ pc = "done"
    /\ Len(attempts) = 3
    /\ Len(candidates) = 3
    /\ \A i \in 1..3 : HasFailed(attempts[i])
    /\ attempts[1].outcome # attempts[3].outcome


(***************************************************************************)
(* The candidate loop of the two paths, as a function of the chain and of  *)
(* what each candidate did.                                                *)
(***************************************************************************)
\* what a candidate visited by the loop did
LoopOutcome(a) ==
    IF a.outcome = "ok" THEN "success"
    ELSE IF is_fallback_candidate_error(a.outcome) THEN "transient"
    ELSE "fatal"

\* no candidate failed after it had produced output
NoneFailedAfterOutput == \A i \in 1..Len(attempts) : ~FailedAfterDelta(i)

\* no candidate's stream failed after a chunk of it had arrived
NoneFailedAfterChunk ==
    \A i \in 1..Len(attempts) :
        (mode = "stream" /\ HasFailed(attempts[i])) => attempts[i].calls = 0

\* what the run ended with is what the chain and the outcomes of the candidates
\* determine, whatever the path: the candidates before the last one visited
\* failed transiently; a last candidate that succeeded is the answering provider,
\* with the trace up to it and the summary from the primary to it when it is not
\* the primary; a last candidate that failed otherwise, or transiently as the
\* last of the chain, gives the run its error
LoopResult ==
    LET n == Len(attempts)
        last == Last(attempts)
    IN  /\ ProvidersOf(attempts) = SubSeq(candidates, 1, n)
        /\ \A i \in 1..(n - 1) : LoopOutcome(attempts[i]) = "transient"
        /\ LoopOutcome(last) = "success" =>
               /\ Completed
               /\ Summary.provider = last.provider
               /\ fallback_chain = SubSeq(candidates, 1, n)
               /\ Summary.from = (IF n > 1 THEN candidates[1] ELSE None)
               /\ Summary.to = (IF n > 1 THEN last.provider ELSE None)
        /\ LoopOutcome(last) = "fatal" => ~Completed /\ error = last.outcome
        /\ LoopOutcome(last) = "transient" =>
               /\ n = Len(candidates)
               /\ ~Completed
               /\ error = last.outcome

\* C24: for the same chain and the same outcomes of the candidates (a transient
\* failure before any output, a failure that is not transient, a success) a
\* streaming run and a single-shot run select the same candidate, give the same
\* trace and the same from/to summary, and fail with the same error: in both the
\* result is the one function LoopResult of the chain and the outcomes.
C24_SamePolicyInBothPaths ==
    (pc = "done" /\ attempts # <<>> /\ NoStageFailure /\ NoneFailedAfterOutput) =>
        LoopResult

\* C24, for the runs in which no stream failed after a chunk had arrived: the
\* statement holds
C24_SameBeforeFirstChunk ==
    (pc = "done" /\ attempts # <<>> /\ NoStageFailure /\ NoneFailedAfterChunk) =>
        LoopResult

\* the two paths on the chain of three whose first two candidates fail transiently
C24_StreamFellBackTwice ==
    /\ mode = "stream" /\ pc = "done" /\ Completed /\ Len(attempts) = 3
    /\ NoneFailedAfterChunk

C24_ChatFellBackTwice ==
    /\ mode = "chat" /\ pc = "done" /\ Completed /\ Len(attempts) = 3


(***************************************************************************)
(* The two tool registries.                                                *)
(***************************************************************************)
IsRegistryCall(c) == c.target = "registry"

ReportedUnknown(c) ==
    c.info # None /\ isCustomException(c.info) /\ custom_code(c.info) = CodeNotFound

\* C25: every tool call goes to the local registry first; the remote adapter is
\* called only for a tool call the registry has just reported as unknown, and
\* for each of those; any other failure of the registry leaves the tool loop as
\* the error of the run, and no call follows it.
C25_RegistryBeforeRemote ==
    /\ Len(tool_runs) <= Len(SelectSeq(call_log, IsRegistryCall))
    /\ \A i \in 1..Len(call_log) :
           /\ call_log[i].target = "remote" =>
                  /\ i > 1
                  /\ IsRegistryCall(call_log[i - 1])
                  /\ call_log[i - 1].name = call_log[i].name
                  /\ ReportedUnknown(call_log[i - 1])
           /\ (IsRegistryCall(call_log[i]) /\ ReportedUnknown(call_log[i])) =>
                  /\ i < Len(call_log)
                  /\ call_log[i + 1].target = "remote"
           /\ (IsRegistryCall(call_log[i]) /\ call_log[i].info # None
               /\ ~ReportedUnknown(call_log[i])) =>
                  /\ i = Len(call_log)
                  /\ RaisedFromLoop(call_log[i].info)

\* a run that called the remote adapter for a tool unknown to the registry and
\* ended on a registry failure of another kind
C25_Witness ==
    /\ pc = "done"
    /\ \E i \in 1..Len(call_log) :
           call_log[i].target = "remote" /\ call_log[i].info = None
    /\ IsRegistryCall(Last(call_log))
    /\ Last(call_log).info = "tool_missing_name"


(***************************************************************************)
(* The order of the calls of the tool loop.                                *)
(***************************************************************************)
\* the tool calls of the assistant messages, in the order of the messages
RECURSIVE FlatCalls(_)
FlatCalls(msgs) ==
    IF msgs = <<>> THEN <<>> ELSE Head(msgs).tool_calls \o FlatCalls(Tail(msgs))

\* the tool calls were executed in the order the provider returned them, and the
\* tool messages appended so far answer them in that order, each group directly
\* after its assistant message
ExecutedInOrder ==
    LET calls == FlatCalls(working_messages)
        executed == SelectSeq(call_log, IsRegistryCall)
        answers == SelectSeq(working_messages, IsToolMessage)
    IN  /\ Len(executed) <= Len(calls)
        /\ \A j \in 1..Len(executed) : executed[j].name = calls[j].name
        /\ Len(answers) = Len(tool_runs)
        /\ Len(answers) <= Len(executed)
        /\ Len(executed) <= Len(answers) + 1
        /\ \A j \in 1..Len(answers) :
               /\ MatchedOrGenerated(calls[j], answers[j])
               /\ tool_runs[j].tool_name = calls[j].name
        /\ \A p \in 1..Len(working_messages) :
               LET k == Len(working_messages[p].tool_calls)
               IN  working_messages[p].role = "assistant" =>
                       /\ \A j \in 1..k :
                              p + j <= Len(working_messages) =>
                                  IsToolMessage(working_messages[p + j])
                       /\ p + k < Len(working_messages) =>
                              ~IsToolMessage(working_messages[p + k + 1])

IsProviderCall(c) == c.target = "provider"

IsAssistantMessage(m) == m.role = "assistant"

\* the calls were awaited one after another: call_log holds them in the order
\* they were awaited, and at each completion call every tool call returned by
\* the completion calls before it had been executed, the first completion call
\* standing at the head of the log
OneAfterAnother ==
    LET answers == SelectSeq(working_messages, IsAssistantMessage)
        completions == Len(SelectSeq(call_log, IsProviderCall))
    IN  /\ Len(answers) <= completions
        /\ completions <= Len(answers) + 1
        /\ call_log # <<>> => IsProviderCall(call_log[1])
        /\ \A i \in 1..Len(call_log) :
               IsProviderCall(call_log[i]) =>
                   LET before == SubSeq(call_log, 1, i - 1)
                       k == Len(SelectSeq(before, IsProviderCall))
                   IN  /\ k <= Len(answers)
                       /\ Len(SelectSeq(before, IsRegistryCall)) =
                              CountCalls(SubSeq(answers, 1, k))

\* C26: a run awaits its external calls one at a time, a completion call only
\* after every tool call of the assistant messages before it was executed, and
\* the tool calls of an assistant message are executed one after another in the
\* provider's order, their tool messages being appended in that order directly
\* after the assistant message.
C26_OneCallAtATime == mode = "chat" => ExecutedInOrder /\ OneAfterAnother

\* the second of two tool calls of one assistant message is about to run, the
\* first having been answered by the remote adapter
C26_Witness ==
    /\ mode = "chat"
    /\ pc = "tools"
    /\ Len(pending_calls) = 1
    /\ Len(Last(SelectSeq(working_messages, LAMBDA m : m.role = "assistant")).tool_calls) = 2
    /\ Last(call_log).target = "remote"
    /\ IsToolMessage(Last(working_messages))
    /\ Head(pending_calls).name # Last(call_log).name


(***************************************************************************)
(* The order of the checks of the gate.                                    *)
(***************************************************************************)
\* what the gate did with the request: the error it raised, or "passed"
GateOutcome == IF pc' = "context" THEN "passed" ELSE error'

\* the checks of the gate on the counters it found, in their order
GateChecks ==
    LET p == primary_provider
        minute_limit == Max(1, quota.limits.minute)
        day_limit == quota.limits.day
        token_limit == quota.limits.token
        token_check ==
            IF token_limit > 0 /\ quota.day_tok[p] >= token_limit
            THEN GateOutcome = "quota_exhausted" ELSE GateOutcome = "passed"
    IN  /\ quota'.minute[p] = quota.minute[p] + 1
        /\ IF quota'.minute[p] > minute_limit
           THEN /\ GateOutcome = "rate_limited_minute"
                /\ quota'.day_req = quota.day_req
           ELSE IF day_limit > 0
           THEN /\ quota'.day_req[p] = quota.day_req[p] + 1
                /\ IF quota'.day_req[p] > day_limit
                   THEN GateOutcome = "rate_limited_day"
                   ELSE token_check
           ELSE /\ quota'.day_req = quota.day_req
                /\ token_check

\* C27: enforce_before_request increments the minute counter and rejects when
\* the new count exceeds the minute ceiling; then, when the day ceiling is > 0,
\* increments the day request counter and rejects when the new count exceeds it;
\* then, when the token ceiling is > 0, rejects iff the token counter is at or
\* above it.  It never changes the token counter, and a request rejected at the
\* minute check leaves the day request counter unchanged.
C27_GateOrder ==
    [][(pc = "quota" /\ quota.enabled) =>
           /\ quota'.day_tok = quota.day_tok
           /\ \/ GateChecks
              \* the counter store was not reached
              \/ quota' = quota /\ GateOutcome \in {"passed", "redis_error"}]_vars

\* a request rejected for its tokens, the counter standing exactly at the
\* ceiling, after both request counters were incremented and found in bounds
C27_Witness ==
    /\ error = "quota_exhausted"
    /\ quota.limits.token > 0
    /\ quota.day_tok[primary_provider] = quota.limits.token
    /\ quota.limits.day > 0
    /\ quota.day_req[primary_provider] = quota.limits.day
    /\ quota.minute[primary_provider] = quota.limits.minute

\* a request rejected at the minute check, and one that passed a gate without a
\* day ceiling and without a token ceiling
C27_RejectedAtMinute ==
    /\ error = "rate_limited_minute"
    /\ quota.limits.day > 0
    /\ quota.day_req[primary_provider] = 0

C27_NoCeilings ==
    /\ pc = "context"
    /\ quota.limits.day = 0 /\ quota.limits.token = 0
    /\ quota.day_req[primary_provider] = MaxGate
    /\ quota.minute[primary_provider] = 1


(***************************************************************************)
(* Concurrent commits of token usage.                                      *)
(***************************************************************************)
RECURSIVE SumTokens(_)
SumTokens(log) == IF log = <<>> THEN 0 ELSE Head(log).tokens + SumTokens(Tail(log))

\* the token counter of the bucket before the first of the commits
TokensBefore ==
    IF quota_commits = <<>> THEN quota.day_tok[Bucket]
    ELSE quota_commits[1].new_value - quota_commits[1].tokens

WritesOf(r) == Len(SelectSeq(quota_commits, LAMBDA c : c.run = r))

\* C28: whatever the interleaving of the commits on one bucket, the token
\* counter is what it was before plus the totals of the commits written so far,
\* each commit writing its total once; and a commit sets the expiry only when its
\* write was the first of the bucket, the key not existing before.
C28_AtomicCommit ==
    /\ TokensBefore \in {0, TokenLimit}
    /\ quota.day_tok[Bucket] = TokensBefore + SumTokens(quota_commits)
    /\ \A r \in DOMAIN quota_runs :
           /\ WritesOf(r) = (IF quota_runs[r].pc \in {"expire", "committed"} THEN 1 ELSE 0)
           /\ quota_runs[r].pc \in {"expire", "committed"} =>
                  \E i \in 1..Len(quota_commits) :
                      /\ quota_commits[i].run = r
                      /\ quota_commits[i].tokens = total_tokens_of(quota_runs[r].usage)
                      /\ quota_commits[i].tokens > 0
           /\ quota_runs[r].pc = "expire" \/ quota_runs[r].set_expiry =>
                  /\ quota_commits[1].run = r
                  /\ TokensBefore = 0

\* three commits were written while the first writer had not yet set the expiry,
\* one of them with a total taken from prompt and completion tokens
C28_Witness ==
    /\ Len(quota_commits) = 3
    /\ quota_runs[quota_commits[1].run].pc = "expire"
    /\ quota.day_tok[Bucket] >= 4
    /\ \E i \in 1..3 : quota_commits[i].tokens = 2


(***************************************************************************)
(* The refresh of the memory summary.                                      *)
(***************************************************************************)
\* the step is maybe_refresh_summary with the trimming: in a run, the step that
\* builds the context; in SpecMemory, the step that appends no message
RefreshStep ==
    \/ pc = "context" /\ pc' \in {"fallback", "persist_user"}
    \/ pc = "load" /\ pc' = "load" /\ history_rows' = history_rows

\* C29: when the summarization call fails, maybe_refresh_summary raises nothing,
\* leaves the stored memory state as it was and returns it, and the run goes on
\* to its candidate loop with the history trimmed by the previous count.
C29_SummaryFailureSwallowed ==
    [][(RefreshStep /\ "summary_failed" \in faults') =>
           /\ memory_message_count' = memory_message_count
           /\ summarized_count' = memory_message_count
           /\ trimmed_rows' = trim_history_rows(history_rows, memory_message_count)
           /\ error' = None
           /\ pc = "context" =>
                  pc' = (IF mode = "chat" THEN "fallback" ELSE "persist_user")]_vars

\* a single-shot run whose summarization call failed and which returned an answer
C29_Witness ==
    /\ mode = "chat"
    /\ pc = "done"
    /\ "summary_failed" \in faults
    /\ summary_calls = 1
    /\ Completed
    /\ Len(attempts) >= 1

EffectiveTrigger == Max(TriggerFloor, SummaryTriggerMessages)

EffectiveKeep == Max(KeepFloor, Min(KeepRecentMessages, KeepCeiling))

\* the condition under which the memory is to be refreshed
RefreshDue ==
    LET cutoff == Max(0, history_rows - EffectiveKeep)
    IN  /\ memory_enable
        /\ history_rows > 0
        /\ Max(0, cutoff - memory_message_count) >= EffectiveTrigger

\* C30: maybe_refresh_summary issues a summarization call iff memory is enabled,
\* the history is not empty and max(0, cutoff - stored count) >= the trigger,
\* with cutoff = max(0, history size - rows kept); it issues one call at most;
\* when the call gives a summary the stored count becomes cutoff, and without a
\* call it stays.
C30_CallIffDue ==
    [][RefreshStep =>
           /\ summary_calls' = (IF RefreshDue THEN 1 ELSE 0)
           /\ (RefreshDue /\ faults' \cap SummaryFaults = {}) =>
                  memory_message_count' = Max(0, history_rows - EffectiveKeep)
           /\ ~RefreshDue => memory_message_count' = memory_message_count]_vars

\* a refresh at the trigger exactly: the rows before the cutoff are as many as
\* the trigger, none was summarized before, and the summary was stored
C30_Witness ==
    /\ summary_calls = 1
    /\ faults = {}
    /\ history_rows = EffectiveTrigger + EffectiveKeep
    /\ memory_message_count = EffectiveTrigger

\* a second refresh of a conversation: the count stored by it lies beyond the
\* first cutoff that could trigger one
C30_SecondRefresh ==
    /\ summary_calls = 1
    /\ faults = {}
    /\ memory_message_count = history_rows - EffectiveKeep
    /\ memory_message_count > EffectiveTrigger

(***************************************************************************)
(* The chain of candidates.                                                *)
(***************************************************************************)
\* the alternates as configured: the names of the setting, normalised, without
\* the blank ones
ConfiguredAlternates ==
    SelectSeq([i \in 1..Len(config.fallback_providers) |->
                  normalised(config.fallback_providers[i])],
              LAMBDA name : name # "")

\* the place of the first occurrence of a name among the configured alternates
FirstPlace(name) ==
    CHOOSE k \in 1..Len(ConfiguredAlternates) :
        /\ ConfiguredAlternates[k] = name
        /\ \A j \in 1..(k - 1) : ConfiguredAlternates[j] # name

ChainBuilt == pc \in {"fallback", "s_fallback"} /\ idx = 1 /\ attempts = <<>>

\* C31: the chain built for a run is not empty, starts with the primary provider,
\* holds no name twice, holds after the primary exactly the configured alternates
\* other than the primary, in their configured order, and is the primary alone
\* when fallback is switched off.
C31_ChainOfCandidates ==
    candidates # <<>> =>
        /\ candidates[1] = primary_provider
        /\ \A i, j \in 1..Len(candidates) : i # j => candidates[i] # candidates[j]
        /\ ~config.auto_fallback => candidates = <<primary_provider>>
        /\ config.auto_fallback =>
               /\ \A i \in 2..Len(candidates) :
                      \E k \in 1..Len(ConfiguredAlternates) :
                          ConfiguredAlternates[k] = candidates[i]
               /\ \A k \in 1..Len(ConfiguredAlternates) :
                      \E i \in 1..Len(candidates) : candidates[i] = ConfiguredAlternates[k]
               /\ \A i, j \in 2..Len(candidates) :
                      i < j => FirstPlace(candidates[i]) < FirstPlace(candidates[j])

\* a chain built from a setting that repeats the primary, holds a blank name and
\* a name in capitals with spaces around it
C31_Witness ==
    /\ ChainBuilt
    /\ config.fallback_providers = <<"deepseek", " ", "bogus", " OpenAI ">>
    /\ candidates = <<"deepseek", "bogus", "openai">>

\* a chain of one: fallback is switched off and alternates are configured
C31_FallbackOff ==
    /\ ChainBuilt
    /\ ~config.auto_fallback
    /\ config.fallback_providers # <<>>
    /\ candidates = <<primary_provider>>

(***************************************************************************)
(* The text of a streaming run.                                            *)
(***************************************************************************)
\* the texts of the delta events among evs, one after another
RECURSIVE DeltaConcat(_)
DeltaConcat(evs) ==
    IF evs = <<>> THEN <<>>
    ELSE (IF IsDelta(Head(evs)) THEN Head(evs).text ELSE <<>>) \o DeltaConcat(Tail(evs))

StreamSucceeded == mode = "stream" /\ events # <<>> /\ Last(events).event = "done"

\* the assistant row the run stored last
FinalRow == Last(db_messages)

\* C32 as stated: the text of the done event and of the persisted assistant
\* message is the concatenation of the texts of the delta events.
C32_TextIsConcatenation ==
    StreamSucceeded =>
        /\ Last(events).text = DeltaConcat(events)
        /\ FinalRow.role = "assistant" /\ FinalRow.content = DeltaConcat(events)

\* C32, amended: on a successful streaming run the text of the done event and of
\* the persisted assistant message is the concatenation, in arrival order, of the
\* texts of all delta events of the run, with the whitespace at its two ends
\* removed.
C32_TextIsTrimmedConcatenation ==
    StreamSucceeded =>
        /\ Last(events).text = strip(DeltaConcat(events))
        /\ FinalRow.role = "assistant" /\ FinalRow.tag = "stream"
        /\ FinalRow.content = strip(DeltaConcat(events))

\* a successful run of two deltas, the first of them whitespace
C32_Witness ==
    /\ StreamSucceeded
    /\ Len(SelectSeq(events, IsDelta)) = 2
    /\ DeltaConcat(events) = <<" ", "a">>
    /\ Last(events).text = <<"a">>

(***************************************************************************)
(* The merged usage.                                                       *)
(***************************************************************************)
IsNumber(v) == v >= 0

\* the sum of the numbers among the values of key k in the usage dicts us
RECURSIVE SumOfNumbers(_, _)
SumOfNumbers(k, us) ==
    IF us = <<>> THEN 0
    ELSE (IF k \in DOMAIN Head(us) /\ IsNumber(Head(us)[k]) THEN Head(us)[k] ELSE 0)
         + SumOfNumbers(k, Tail(us))

\* the value of key k that was seen first in us
FirstSeen(k, us) == SelectSeq(us, LAMBDA u : k \in DOMAIN u)[1][k]

\* what the usage dicts us are to merge to
SumPerField(us) ==
    [k \in UNION {DOMAIN us[i] : i \in 1..Len(us)} |->
        IF IsNumber(FirstSeen(k, us)) THEN SumOfNumbers(k, us) ELSE FirstSeen(k, us)]

\* the usage dicts of the completion calls of the tool loop, in order
LoopUsages ==
    LET answers == SelectSeq(working_messages, IsAssistantMessage)
    IN  [i \in 1..Len(answers) |-> UsageOf(answers[i].content[1])]

\* the usage dicts of the chunks of the stream, in order
ChunkUsages ==
    LET deltas == SelectSeq(events, IsDelta)
    IN  [i \in 1..Len(deltas) |-> UsageOf(deltas[i].text[1])]

\* C33: the usage merged over the completion calls of a tool loop, and over the
\* chunks of a stream, holds every key seen; a key whose first-seen value is a
\* number holds the sum of the numbers seen under it, and a key whose first-seen
\* value is not a number holds that value.  It is the usage the run reports.
C33_UsageSummedPerField ==
    /\ mode = "chat" =>
           /\ tl_usage_total = SumPerField(LoopUsages)
           /\ pc \in {"persist", "commit"} \/ result.status = "returned" =>
                  usage_total = SumPerField(LoopUsages)
    /\ mode = "stream" => usage_total = SumPerField(ChunkUsages)

\* a returned single-shot run of two completion calls with a token count each
C33_Witness ==
    /\ mode = "chat"
    /\ result.status = "returned"
    /\ Len(LoopUsages) = 2
    /\ LoopUsages[1] = Usage1 /\ LoopUsages[2] = Usage1
    /\ usage_total["total_tokens"] = 2

\* a successful stream of two chunks: a total that is not a number is followed by
\* a number, a count by a value that is not a number
C33_FirstValueKept ==
    /\ StreamSucceeded
    /\ Len(ChunkUsages) = 2
    /\ ChunkUsages[1] = UsageOf("b") /\ ChunkUsages[2] = UsageOf("c")
    /\ usage_total["total_tokens"] = -1
    /\ usage_total["cached_tokens"] = 1

(***************************************************************************)
(* The windows of a text.                                                  *)
(***************************************************************************)
\* the windows w of a text of this length, cut with this size and overlap: there
\* are at most as many as the text has characters, the first starts the text, each
\* holds a character at least and size characters at most, each starts after the
\* start and not after the end of the one before and ends after it, the last ends
\* the text, and every position of the text lies in one
WindowsOf(w, length, size, overlap) ==
    /\ Len(w) >= 1 /\ Len(w) <= length
    /\ w[1].start = 0
    /\ Last(w).end = length
    /\ \A i \in 1..Len(w) :
           /\ w[i].start < w[i].end
           /\ w[i].end - w[i].start <= size
    /\ \A i \in 1..(Len(w) - 1) :
           /\ w[i + 1].start >= w[i].start + 1
           /\ w[i + 1].start = w[i].end - overlap
           /\ w[i + 1].start <= w[i].end
           /\ w[i + 1].end > w[i].end
    /\ \A position \in 0..(length - 1) :
           \E i \in 1..Len(w) : w[i].start <= position /\ position < w[i].end

\* an ingestion of a text of this length that went on to its loop cut the
\* text into its windows, with a size and an overlap inside the clamps
SplitBy(length, size, overlap) ==
    (StartIngestion(length, size, overlap) /\ rag_pc' = "embed") =>
        LET c == clamped(size, overlap)
        IN  /\ c.size \in MinChunkSize..MaxChunkSize
            /\ c.overlap \in 0..(c.size - 1)
            /\ WindowsOf(rag_chunks', length, c.size, c.overlap)

\* C34: the split of every text that is not empty ends, for every size and
\* overlap the clamps of ingest_document let through (size 200 to 4000, overlap 0
\* to size - 1): each window starts at least one character after the one before,
\* the last window ends at the end of the text, and the windows cover every
\* position of the text in order.
C34_SplitCoversText ==
    [][/\ \A length \in TextLengths, size \in ChunkSizes, overlap \in ChunkOverlaps :
              SplitBy(length, size, overlap)
       /\ SplitBy(MinChunkSize + 3, MinChunkSize - 100, MaxChunkSize)]_vars

\* a text cut with the largest overlap the clamp allows: each window starts one
\* character after the one before
C34_Witness ==
    /\ rag_pc = "embed"
    /\ Len(rag_chunks) = 4
    /\ rag_chunks[2] = [start |-> 1, end |-> MinChunkSize + 1]
    /\ Last(rag_chunks) = [start |-> 3, end |-> MinChunkSize + 3]

\* the longest text, cut into overlapping windows of the smallest size
C34_LongText ==
    /\ rag_pc = "embed"
    /\ Len(rag_chunks) = 5
    /\ rag_chunks[2].start = MinChunkSize - 120
    /\ Last(rag_chunks).end = MaxTextLength

(***************************************************************************)
(* The assistant rows of a streaming run.                                  *)
(***************************************************************************)
IsAssistantRow(r) == r.role = "assistant"

AssistantRows == SelectSeq(db_messages, IsAssistantRow)

\* C35: a streaming run persists at most one assistant message: the final one
\* when it ends with done, one tagged partial when it ends with error, never
\* both, whichever step fails after the stream was consumed.
C35_AtMostOneAssistantRow ==
    mode = "stream" =>
        /\ Len(AssistantRows) <= 1
        /\ (AssistantRows # <<>> /\ events # <<>> /\ Last(events).event = "done") =>
               AssistantRows[1].tag = "stream"
        /\ (AssistantRows # <<>> /\ events # <<>> /\ Last(events).event = "error") =>
               AssistantRows[1].tag = "partial"

\* the same, of the runs in which the commit of the token usage does not fail
C35_OneRowUnlessCommitFails ==
    (mode = "stream" /\ error # "redis_error") =>
        /\ Len(AssistantRows) <= 1
        /\ (AssistantRows # <<>> /\ events # <<>> /\ Last(events).event = "done") =>
               AssistantRows[1].tag = "stream"
        /\ (AssistantRows # <<>> /\ events # <<>> /\ Last(events).event = "error") =>
               AssistantRows[1].tag = "partial"

\* a run that ended with error after its final assistant row was committed, and
\* stored a partial row as well
C35_BothRows ==
    /\ mode = "stream"
    /\ pc = "done"
    /\ Last(events).event = "error"
    /\ Len(AssistantRows) = 2
    /\ AssistantRows[1].tag = "stream" /\ AssistantRows[2].tag = "partial"
    /\ AssistantRows[1].content = AssistantRows[2].content

(***************************************************************************)
(* What a failed candidate leaves behind.                                  *)
(***************************************************************************)
IsUserMessage(m) == m.role = "user"

IsAssistantRecord(r) == r.role = "assistant" /\ r.reason = ""

\* the tokens of a usage dict of the model's completion results
Tokens(usage) == IF "total_tokens" \in DOMAIN usage THEN usage["total_tokens"] ELSE 0

\* the candidate before the last one attempted left a tool loop that had gone
\* through a completion call
FailedInsideLoop(i) ==
    /\ attempts[i].resolved
    /\ HasFailed(attempts[i])
    /\ attempts[i].calls >= 1
    /\ attempts[i].outcome \notin CallErrors \/ attempts[i].calls >= 2

\* C36: the tool loop of every candidate starts from the turn context: what the
\* loop holds (context, records, tool runs, merged usage) comes from the
\* completion calls of the candidate attempted last, and so does what the run
\* persists and reports; nothing a failed candidate produced is in it.
C36_FreshStartPerCandidate ==
    (mode = "chat" /\ attempts # <<>> /\ Last(attempts).resolved) =>
        LET calls == Last(attempts).calls
            answers == SelectSeq(working_messages, IsAssistantMessage)
        IN  /\ Head(working_messages) = UserMessage
            /\ Len(SelectSeq(working_messages, IsUserMessage)) = 1
            /\ Len(answers) <= calls /\ calls <= Len(answers) + 1
            /\ Len(SelectSeq(generated_records, IsAssistantRecord)) = Len(answers)
            /\ \A i \in 1..Len(generated_records) :
                   generated_records[i].provider \in {None, Last(attempts).provider}
            /\ Len(tool_runs) = CountToolMessages(working_messages)
            /\ Len(tool_runs) <= CountCalls(answers)
            /\ Tokens(tl_usage_total) <= Len(answers)
            /\ pc \in {"persist", "commit"} \/ result.status = "returned" =>
                   usage_total = tl_usage_total
            /\ db_messages # <<>> =>
                   /\ Len(db_messages) = 1 + Len(generated_records)
                   /\ \A i \in 1..Len(db_messages) :
                          db_messages[i].provider \in {None, Last(attempts).provider}

\* a run the second candidate answered with one completion call, after the tool
\* loop of the first had produced an assistant message and a tool result and
\* then failed
C36_Witness ==
    /\ mode = "chat"
    /\ result.status = "returned"
    /\ Len(attempts) = 2
    /\ FailedInsideLoop(1)
    /\ attempts[2].calls = 1
    /\ working_messages = <<UserMessage, Message("assistant", <<"a">>, NoId, <<>>)>>
    /\ Len(db_messages) = 2

(***************************************************************************)
(* What a failed single-shot run stores.                                   *)
(***************************************************************************)
\* the commit of the token usage was reached and the counter store failed in it
CommitOfUsageFailed == quota_commits # <<>> /\ error = "redis_error"

\* C37: a single-shot run that fails at any stage persists no user, assistant or
\* tool message of its turn: the user message is stored iff the run succeeds.
C37_StoredIffSucceeded ==
    (mode = "chat" /\ RunEnded) =>
        /\ result.status = "raised" => db_messages = <<>>
        /\ result.status = "returned" =>
               /\ db_messages # <<>>
               /\ Head(db_messages).role = "user"

\* the same, of the runs in which the commit of the token usage does not fail
C37_StoredIffSucceededUnlessCommitFails ==
    (mode = "chat" /\ RunEnded /\ ~CommitOfUsageFailed) =>
        /\ result.status = "raised" => db_messages = <<>>
        /\ result.status = "returned" =>
               /\ db_messages # <<>>
               /\ Head(db_messages).role = "user"

\* a single-shot run that raised the failure of the counter store after it had
\* stored the messages of its turn
C37_StoredAndRaised ==
    /\ mode = "chat"
    /\ pc = "done"
    /\ result.status = "raised" /\ result.error = "redis_error"
    /\ Len(db_messages) >= 2
    /\ Head(db_messages).role = "user"
    /\ ~metric_success

(***************************************************************************)
(* The buckets a run counts against.                                       *)
(***************************************************************************)
\* the provider that answered the run
AnsweringProvider == IF mode = "chat" THEN actual_provider ELSE selected_provider

\* C38: the quota gate is passed once per run, before any provider call, and
\* counts and tests the buckets of the primary provider only; the tokens are
\* committed to the bucket of the provider that answered.  The request counters
\* of no other provider change, and no step but the gate rejects for quota.
C38_GateOnPrimaryCommitOnAnswering ==
    [][/\ pc \in {"load", "resolve", "quota"} => call_log = <<>> /\ attempts = <<>>
       /\ pc' = "quota" => pc = "resolve"
       /\ pc = "quota" =>
              /\ \A p \in Providers \ {primary_provider} :
                     /\ quota'.minute[p] = quota.minute[p]
                     /\ quota'.day_req[p] = quota.day_req[p]
              /\ quota'.day_tok = quota.day_tok
              /\ error' = "rate_limited_minute" =>
                     quota.minute[primary_provider] >= Max(1, quota.limits.minute)
              /\ error' = "rate_limited_day" =>
                     quota.day_req[primary_provider] >= quota.limits.day
              /\ error' = "quota_exhausted" =>
                     quota.day_tok[primary_provider] >= quota.limits.token
       /\ pc # "quota" =>
              /\ quota'.minute = quota.minute
              /\ quota'.day_req = quota.day_req
              /\ error' \in QuotaRejections => error \in QuotaRejections
       /\ quota'.day_tok # quota.day_tok =>
              /\ pc \in {"commit", "s_commit"}
              /\ AnsweringProvider = Last(attempts).provider
              /\ Last(attempts).outcome = "ok"
              /\ quota'.day_tok =
                     [quota.day_tok EXCEPT
                         ![AnsweringProvider] = @ + total_tokens_of(usage_total)]]_vars

\* a single-shot run answered by the first alternate after a fallback: the
\* alternate's buckets stood at their ceilings when the run began, its request
\* counters are as they were and its tokens went beyond the ceiling; the gate
\* counted the request against the primary
C38_Witness ==
    /\ mode = "chat"
    /\ result.status = "returned"
    /\ result.provider = "openai" /\ result.fallback_from = default_llm_provider
    /\ quota.minute["openai"] = MinuteLimit /\ quota.day_req["openai"] = DayLimit
    /\ quota.day_tok["openai"] > TokenLimit
    /\ quota.minute[default_llm_provider] = 1
    /\ quota.day_tok[default_llm_provider] = 0

\* the same on the streaming path
C38_StreamWitness ==
    /\ StreamSucceeded
    /\ selected_provider = "openai" /\ fallback_from = default_llm_provider
    /\ quota.minute["openai"] = MinuteLimit /\ quota.day_req["openai"] = DayLimit
    /\ quota.day_tok["openai"] > TokenLimit
    /\ quota.minute[default_llm_provider] = 1

(***************************************************************************)
(* What the store holds when a caller is told of success.                  *)
(***************************************************************************)
\* the step emits the done event
DoneEmitted == events' # events /\ Last(events').event = "done"

\* the step returns the result of a single-shot run
ResultReturned == result.status # "returned" /\ result'.status = "returned"

\* C39: the done event of a streaming run is emitted when the final assistant
\* message and the conversation's provider are committed and the call that
\* commits the token usage has returned; the result of a single-shot run is
\* returned when the messages of the turn are committed.  The step that tells
\* the caller stores nothing.
C39_StoredBeforeSuccess ==
    [][/\ DoneEmitted =>
              /\ db_messages # <<>>
              /\ FinalRow = Row("assistant", Last(events').text, NoId,
                                selected_provider, "stream")
              /\ conv_provider = selected_provider
              /\ quota_commits # <<>>
              /\ Last(quota_commits) =
                     [provider |-> selected_provider,
                      tokens |-> total_tokens_of(usage_total)]
              /\ error = None
              /\ db_messages' = db_messages /\ conv_provider' = conv_provider
              /\ quota' = quota
       /\ ResultReturned =>
              /\ mode = "chat"
              /\ db_messages # <<>>
              /\ Head(db_messages).role = "user"
              /\ FinalRow.role = "assistant"
              /\ FinalRow.content = result'.assistant_message
              /\ conv_provider = actual_provider
              /\ db_messages' = db_messages /\ conv_provider' = conv_provider]_vars

\* a streaming run that ended with done after its tokens went to the bucket
C39_Witness ==
    /\ StreamSucceeded
    /\ FinalRow.role = "assistant" /\ FinalRow.content = Last(events).text
    /\ quota_commits # <<>> /\ Last(quota_commits).tokens > 0
    /\ quota.day_tok[selected_provider] > 0

\* a single-shot run that returned with its turn in the store
C39_Returned ==
    /\ mode = "chat" /\ result.status = "returned"
    /\ Len(db_messages) >= 2 /\ FinalRow.content = result.assistant_message

(***************************************************************************)
(* The fallback trace in the observability record of a failed run.         *)
(***************************************************************************)
\* the providers of the candidates attempted so far, in order
AttemptedProviders == [i \in 1..Len(attempts) |-> attempts[i].provider]

\* the run ended, failed, and its observability record is stored
FailedRunRecorded == pc = "done" /\ metrics # <<>> /\ ~Last(metrics).success

\* the candidate loop of the single-shot run returned an answer
LoopReturned == attempts # <<>> /\ Last(attempts).outcome = "ok"

\* C40 as stated: the record of a failed single-shot run carries an empty
\* fallback trace and no fallback_from; the record of a failed streaming run
\* lists every candidate attempted so far, in order.
C40_FailedSingleShotHasNoTrace ==
    FailedRunRecorded =>
        /\ mode = "chat" =>
               /\ Last(metrics).fallback_from = None
               /\ Last(metrics).fallback_chain = <<>>
        /\ mode = "stream" => Last(metrics).fallback_chain = AttemptedProviders

\* C40: the record of a single-shot run that failed before its candidate loop
\* returned carries an empty fallback trace and no fallback_from, however many
\* candidates were attempted; when the run failed after the loop returned, the
\* record carries the trace and the origin the loop returned; the record of a
\* failed streaming run lists every candidate attempted so far, in order.
C40_TraceOfFailedRun ==
    FailedRunRecorded =>
        /\ (mode = "chat" /\ ~LoopReturned) =>
               /\ Last(metrics).fallback_from = None
               /\ Last(metrics).fallback_chain = <<>>
        /\ (mode = "chat" /\ LoopReturned) =>
               /\ Last(metrics).fallback_chain = AttemptedProviders
               /\ Last(metrics).fallback_from =
                      IF Len(attempts) > 1 THEN primary_provider ELSE None
        /\ mode = "stream" => Last(metrics).fallback_chain = AttemptedProviders

\* a single-shot run in which every candidate of a chain of three failed: its
\* record has no trace
C40_Witness ==
    /\ FailedRunRecorded
    /\ mode = "chat" /\ ~LoopReturned
    /\ Len(attempts) = 3
    /\ Last(metrics).fallback_chain = <<>> /\ Last(metrics).fallback_from = None

\* a streaming run in which every candidate of a chain of three failed: its
\* record lists the three
C40_StreamTrace ==
    /\ FailedRunRecorded
    /\ mode = "stream"
    /\ Len(attempts) = 3
    /\ Last(metrics).fallback_chain = AttemptedProviders

\* a single-shot run that failed at the commit of its rows after the second
\* candidate had answered: its record carries the trace
C40_TraceAfterAnswer ==
    /\ FailedRunRecorded
    /\ mode = "chat" /\ LoopReturned /\ error = "db_error"
    /\ Len(attempts) = 2
    /\ Last(metrics).fallback_chain = AttemptedProviders
    /\ Last(metrics).fallback_from = primary_provider

====
